---- MODULE Spec2Model ----
(***************************************************************************)
(* Model of the word-embedding service's model cache                       *)
(* (ml-service/utils/model_manager.py, class ModelManager) together with   *)
(* the model-name validation in front of it (utils/validation.py) and the  *)
(* request threads of the threaded Flask server that call into it.         *)
(*                                                                         *)
(* A table object is identified by <<name, k>>: the k-th execution of the  *)
(* loader for `name`.  The same pair identifies the error raised by a      *)
(* failed execution.  loaderCalls, disturbed and inherited are history     *)
(* variables: they record what happened and never influence a guard of     *)
(* the program.                                                            *)
(*                                                                         *)
(* Spec is the cache under the calls that take load_lock; SpecReaders adds *)
(* the readers that do not take it.  SpecFair is the cache under fair      *)
(* scheduling, for the properties of progress.  SpecRoutes is one request  *)
(* to a route, served by a thread on the cache while other threads load.   *)
(* SpecService is one call of a                                            *)
(* function of utils/validation.py or services/word2vec_service.py, or one *)
(* request to a route of routes/word2vec.py: a str is the sequence of its  *)
(* characters, and a word table is what the service reads of a gensim      *)
(* KeyedVectors (its length, index_to_key and key_to_index).               *)
(***************************************************************************)
EXTENDS Naturals, Integers, Sequences, FiniteSets, TLC

---------------------------------------------------------------------------
(* Bounds of the model *)

NThreads == 2

MaxLoads == 2

Threads == 1..NThreads

---------------------------------------------------------------------------
(* Program constants *)

\* ModelManager.model_config keys
model_config ==
    { "glove-wiki-gigaword-50", "glove-wiki-gigaword-100",
      "glove-wiki-gigaword-200", "glove-wiki-gigaword-300",
      "glove-twitter-25", "glove-twitter-50",
      "glove-twitter-100", "glove-twitter-200",
      "word2vec-google-news-300", "fasttext-wiki-news-subwords-300" }

\* validation.VALID_MODELS
VALID_MODELS ==
    { "glove-wiki-gigaword-50", "glove-wiki-gigaword-100",
      "glove-wiki-gigaword-200", "glove-wiki-gigaword-300",
      "glove-twitter-25", "glove-twitter-50",
      "glove-twitter-100", "glove-twitter-200",
      "word2vec-google-news-300", "fasttext-wiki-news-subwords-300" }

\* validation.DEFAULT_MODEL
DEFAULT_MODEL == "glove-wiki-gigaword-100"

\* Config.MODEL_LOAD_TIMEOUT (seconds)
MODEL_LOAD_TIMEOUT == 300

\* TestingConfig.MODEL_CACHE_SIZE_LIMIT
MODEL_CACHE_SIZE_LIMIT == 1

---------------------------------------------------------------------------
(* Inputs *)

\* model names passed to get_model / unload_model: two catalog names and
\* one name outside the catalog
RequestModels == { "glove-wiki-gigaword-50", "glove-wiki-gigaword-100", "no-such-model" }

\* (model_name, force_reload) arguments of the direct get_model calls
GetModelArgs ==
    { << m, FALSE >> : m \in RequestModels } \cup { << "glove-wiki-gigaword-100", TRUE >> }

\* every name the history variables keep a record for
AllNames == model_config \cup RequestModels

\* a request's "model" field: None, or a string given as its leading
\* whitespace count, its body without surrounding whitespace, and its
\* trailing whitespace count
NoneValue == [isNone |-> TRUE, lead |-> 0, body |-> "", trail |-> 0]

Str(l, b, r) == [isNone |-> FALSE, lead |-> l, body |-> b, trail |-> r]

RawModels ==
    { NoneValue, Str(0, "", 0), Str(1, "", 0),
      Str(0, "glove-wiki-gigaword-50", 0), Str(1, "glove-wiki-gigaword-50", 1),
      Str(0, "no-such-model", 0), Str(0, "no-such-model", 1) }

\* elapsed seconds a load can take: within and beyond the configured timeout
LoadDurations == { 1, MODEL_LOAD_TIMEOUT + 1 }

---------------------------------------------------------------------------
(* Values *)

\* load_lock when no thread owns it
Unlocked == 0

NoObj == <<"", 0>>

NoCall == [op |-> "none", model |-> "", force |-> FALSE]

NoResult == [kind |-> "none", exc |-> "", obj |-> NoObj, ret |-> FALSE]

ReturnModel(o) == [kind |-> "return", exc |-> "", obj |-> o, ret |-> FALSE]

ReturnBool(b) == [kind |-> "return", exc |-> "", obj |-> NoObj, ret |-> b]

Raise(e, o) == [kind |-> "raise", exc |-> e, obj |-> o, ret |-> FALSE]

\* no dict iterator: the thread is not inside a loop over loaded_models
NoIter == [keys |-> {}, pos |-> 0]

\* no service call or request is under consideration
NoRequest == [op |-> "none"]

\* get_random_word is not running
NoSample == [at |-> "none"]

\* nothing returned, raised or answered yet
NoResponse == [kind |-> "none"]

EmptyMap == [x \in {} |-> NoObj]

EmptyTimes == [x \in {} |-> 0]

Remove(f, k) == [x \in DOMAIN f \ {k} |-> f[x]]

Put(f, k, v) == [x \in DOMAIN f \cup {k} |-> IF x = k THEN v ELSE f[x]]

Values(f) == { f[x] : x \in DOMAIN f }

---------------------------------------------------------------------------
(* validate_model *)

\* str.strip()
Strip(s) == [s EXCEPT !.lead = 0, !.trail = 0]

IsBlank(s) == ~s.isNone /\ Strip(s).body = ""

\* variant of validate_model that accepts every name that is not blank
validate_model_AnyName(model) ==
    IF model.isNone \/ IsBlank(model)
    THEN [ok |-> TRUE, model |-> DEFAULT_MODEL]
    ELSE [ok |-> TRUE, model |-> Strip(model).body]

\* [ok |-> TRUE, model |-> name] or [ok |-> FALSE, ...] for ModelNotFoundError
validate_model(model) ==
    IF model.isNone \/ IsBlank(model)
    THEN [ok |-> TRUE, model |-> DEFAULT_MODEL]
    ELSE LET m == Strip(model) IN
         IF m.body \notin VALID_MODELS
         THEN [ok |-> FALSE, model |-> m.body]
         ELSE [ok |-> TRUE, model |-> m.body]

---------------------------------------------------------------------------
(* Text: a str is the sequence of its characters *)

AsciiLetters ==
    { "a", "b", "c", "d", "e", "f", "g", "h", "i", "j", "k", "l", "m", "n", "o", "p", "q", "r", "s", "t", "u", "v", "w", "x", "y", "z",
      "A", "B", "C", "D", "E", "F", "G", "H", "I", "J", "K", "L", "M", "N", "O", "P", "Q", "R", "S", "T", "U", "V", "W", "X", "Y", "Z" }

\* a letter outside ASCII, for which str.isalpha() is True as well
OtherLetters == { "é" }

DigitChars == << "0", "1", "2", "3", "4", "5", "6", "7", "8", "9" >>

\* the characters WORD_PATTERN admits besides letters and digits
SpecialChars == { "-", "_", "'", "." }

\* characters that str.strip() removes
Whitespace == { " ", "\t", "\n", "\r" }

RECURSIVE LStrip(_)
LStrip(s) == IF s # << >> /\ Head(s) \in Whitespace THEN LStrip(Tail(s)) ELSE s

RECURSIVE RStrip(_)
RStrip(s) == IF s # << >> /\ s[Len(s)] \in Whitespace THEN RStrip(SubSeq(s, 1, Len(s) - 1)) ELSE s

\* s.strip()
StripChars(s) == RStrip(LStrip(s))

\* s.isalpha()
isalpha(s) == s # << >> /\ \A i \in 1..Len(s) : s[i] \in AsciiLetters \cup OtherLetters

\* `a + b in s` for two characters a and b
HasPair(s, a, b) == \E i \in 1..(Len(s) - 1) : s[i] = a /\ s[i + 1] = b

\* c * n
Rep(c, n) == [i \in 1..n |-> c]

RECURSIVE NatStr(_)
NatStr(n) == IF n < 10 THEN << DigitChars[n + 1] >> ELSE Append(NatStr(n \div 10), DigitChars[(n % 10) + 1])

\* str(n) of an int
IntStr(n) == IF n < 0 THEN << "-" >> \o NatStr(0 - n) ELSE NatStr(n)

\* the fixed list of _get_fallback_word, in its order
fallback_words ==
    << <<"w", "o", "r", "d">>,
       <<"t", "i", "m", "e">>,
       <<"p", "e", "r", "s", "o", "n">>,
       <<"y", "e", "a", "r">>,
       <<"w", "a", "y">>,
       <<"d", "a", "y">>,
       <<"t", "h", "i", "n", "g">>,
       <<"m", "a", "n">>,
       <<"w", "o", "r", "l", "d">>,
       <<"l", "i", "f", "e">>,
       <<"h", "a", "n", "d">>,
       <<"p", "a", "r", "t">>,
       <<"c", "h", "i", "l", "d">>,
       <<"e", "y", "e">>,
       <<"w", "o", "m", "a", "n">>,
       <<"p", "l", "a", "c", "e">>,
       <<"w", "o", "r", "k">>,
       <<"w", "e", "e", "k">>,
       <<"c", "a", "s", "e">>,
       <<"p", "o", "i", "n", "t">>,
       <<"g", "o", "v", "e", "r", "n", "m", "e", "n", "t">>,
       <<"c", "o", "m", "p", "a", "n", "y">>,
       <<"n", "u", "m", "b", "e", "r">>,
       <<"g", "r", "o", "u", "p">>,
       <<"p", "r", "o", "b", "l", "e", "m">>,
       <<"f", "a", "c", "t">>,
       <<"w", "a", "t", "e", "r">>,
       <<"m", "o", "n", "e", "y">>,
       <<"s", "t", "o", "r", "y">>,
       <<"e", "x", "a", "m", "p", "l", "e">>,
       <<"f", "a", "m", "i", "l", "y">>,
       <<"s", "y", "s", "t", "e", "m">>,
       <<"p", "r", "o", "g", "r", "a", "m">>,
       <<"q", "u", "e", "s", "t", "i", "o", "n">>,
       <<"s", "c", "h", "o", "o", "l">>,
       <<"b", "u", "s", "i", "n", "e", "s", "s">>,
       <<"a", "r", "e", "a">>,
       <<"h", "e", "a", "l", "t", "h">>,
       <<"p", "o", "w", "e", "r">>,
       <<"b", "o", "o", "k">>,
       <<"m", "u", "s", "i", "c">>,
       <<"h", "o", "u", "s", "e">>,
       <<"f", "o", "o", "d">> >>

---------------------------------------------------------------------------
(* utils/validation.py: validate_word *)

MIN_WORD_LENGTH == 1

MAX_WORD_LENGTH == 100

WORD_BLACKLIST == { << >>, << " " >>, << "\t" >>, << "\n" >>, << "\r" >> }

\* WORD_PATTERN.match(s)
WORD_PATTERN(s) ==
    /\ s # << >>
    /\ \A i \in 1..Len(s) :
           s[i] \in AsciiLetters \cup { DigitChars[d] : d \in 1..10 } \cup SpecialChars

\* the values a request can carry in a word field: nothing, a str, a number
NoneWord == [kind |-> "none", text |-> << >>, value |-> 0]

StrWord(s) == [kind |-> "str", text |-> s, value |-> 0]

IntWord(n) == [kind |-> "int", text |-> << >>, value |-> n]

\* raise_validation_error(...)
RejectedWord == [ok |-> FALSE, word |-> << >>]

\* validate_word(word): the cleaned word, or ValidationError
validate_word(word) ==
    IF word.kind = "none" THEN RejectedWord
    ELSE LET original_word == IF word.kind = "str" THEN word.text ELSE IntStr(word.value)
             w == StripChars(original_word) IN
         IF w = << >> \/ w \in WORD_BLACKLIST THEN RejectedWord
         ELSE IF Len(w) < MIN_WORD_LENGTH THEN RejectedWord
         ELSE IF Len(w) > MAX_WORD_LENGTH THEN RejectedWord
         ELSE IF ~WORD_PATTERN(w) THEN RejectedWord
         ELSE IF w[1] = "-" \/ w[Len(w)] = "-" THEN RejectedWord
         ELSE IF w[1] = "_" \/ w[Len(w)] = "_" THEN RejectedWord
         ELSE IF HasPair(w, "-", "-") \/ HasPair(w, "_", "_") \/ HasPair(w, ".", ".")
              THEN RejectedWord
         ELSE [ok |-> TRUE, word |-> w]

\* the length up to which every str over WordAlphabet is tried
MaxWordLen == 3

WordAlphabet == { "a", "7", "-", "_", "'", ".", " ", "!" }

\* the word values tried: every short str, strs around MAX_WORD_LENGTH, a
\* non-ASCII letter, None and numbers
WordInputs ==
    { StrWord(s) : s \in UNION { [1..n -> WordAlphabet] : n \in 0..MaxWordLen } }
    \cup { StrWord(Rep("a", MAX_WORD_LENGTH)),
           StrWord(Rep("a", MAX_WORD_LENGTH + 1)),
           StrWord(<< " " >> \o Rep("a", MAX_WORD_LENGTH) \o << "\n" >>),
           StrWord(<< "é" >>),
           NoneWord, IntWord(7), IntWord(12), IntWord(0 - 1) }

---------------------------------------------------------------------------
(* A word table: what the service reads of a gensim KeyedVectors *)

\* a table whose index_to_key is the list ws and whose key_to_index has
\* exactly those keys
ListTable(ws) ==
    [size |-> Len(ws),
     at |-> [r \in 0..(Len(ws) - 1) |-> ws[r + 1]],
     filler |-> << >>,
     keys |-> { ws[i] : i \in 1..Len(ws) }]

\* the number of most common ranks that get_random_word draws from
COMMON_WORDS == 15000

\* a table of n keys, n > COMMON_WORDS, of which three ranks hold the given
\* words and every other rank holds a numeral
LongTable(n, first, last, beyond) ==
    [size |-> n,
     at |-> [r \in {0, COMMON_WORDS - 1, COMMON_WORDS} |->
                IF r = 0 THEN first ELSE IF r = COMMON_WORDS - 1 THEN last ELSE beyond],
     filler |-> << "0" >>,
     keys |-> { first, last, beyond, << "0" >> }]

\* model.index_to_key[r]
index_to_key(tb, r) == IF r \in DOMAIN tb.at THEN tb.at[r] ELSE tb.filler

\* a table without any key
EmptyTable == ListTable(<< >>)

\* a table of clean words of 3, 4, 5 and 15 letters and of a word too short
PlainTable ==
    ListTable(<< << "k", "i", "n", "g" >>,
                 << "q", "u", "e", "e", "n" >>,
                 << "c", "a", "t" >>,
                 << "a", "b" >>,
                 << "a", "b", "c", "d", "e", "f", "g", "h", "i", "j", "k", "l", "m", "n", "o" >>,
                 << "c", "a", "f", "é" >> >>)

\* a table without any clean word and without any fallback word
DirtyTable ==
    ListTable(<< << "1", "2" >>,
                 << "a", "b" >>,
                 << " ", "d", "o", "g", " " >>,
                 << "x", "-", "y" >>,
                 << "a", "b", "c", "d", "e", "f", "g", "h", "i", "j", "k", "l", "m", "n", "o", "p" >> >>)

\* a table whose only clean words are the fallback words time and water
FallbackTable ==
    ListTable(<< << "1", "2" >>,
                 << "t", "i", "m", "e" >>,
                 << "w", "a", "t", "e", "r" >> >>)

\* a table in which zebra has the first rank beyond the common ones
BigTable == LongTable(COMMON_WORDS + 1, << "1", "2" >>, << "q", "u", "e", "e", "n" >>, << "z", "e", "b", "r", "a" >>)

\* the tables tried
Tables == { EmptyTable, PlainTable, DirtyTable, FallbackTable, BigTable }

\* the words tried as arguments of the comparisons
QueryWords == { << "k", "i", "n", "g" >>, << "q", "u", "e", "e", "n" >>, << "z", "e", "b", "r", "a" >>, << "x", "-", "y" >> }

---------------------------------------------------------------------------
(* services/word2vec_service.py: the helpers *)

\* _word_exists_in_model(model, word): model.has_index_for(word)
word_exists_in_model(tb, word) == word \in tb.keys

\* _get_vocabulary_size(model): len(model)
get_vocabulary_size(tb) == tb.size

\* _get_word_at_index(model, index): the stripped key at that rank, or None
\* (the empty str stands for None, both being false in `if word`)
get_word_at_index(tb, index) ==
    IF index < tb.size THEN StripChars(index_to_key(tb, index)) ELSE << >>

MIN_CLEAN_LENGTH == 3

MAX_CLEAN_LENGTH == 15

\* _is_clean_word(word)
is_clean_word(word) ==
    /\ ~(Len(word) < MIN_CLEAN_LENGTH \/ Len(word) > MAX_CLEAN_LENGTH)
    /\ isalpha(word)

\* the fallback words that exist in the table, as positions of the list
FallbackPresent(tb) ==
    { i \in 1..Len(fallback_words) : word_exists_in_model(tb, fallback_words[i]) }

\* variant of get_fallback_word that always takes the word random.choice picks
get_fallback_word_Any(tb, c) == fallback_words[c]

\* _get_fallback_word(model_name, model), c being the position that
\* random.choice picks: the first fallback word that exists in the table,
\* else the picked one
get_fallback_word(tb, c) ==
    IF tb.size # 0 /\ FallbackPresent(tb) # {}
    THEN fallback_words[CHOOSE i \in FallbackPresent(tb) : \A j \in FallbackPresent(tb) : i <= j]
    ELSE fallback_words[c]

\* variant of MAX_WORD_INDEX that lets every rank of the vocabulary be drawn
MAX_WORD_INDEX_Whole(vocab_size) == vocab_size

\* MAX_WORD_INDEX = min(15000, vocab_size)
MAX_WORD_INDEX(vocab_size) == IF COMMON_WORDS < vocab_size THEN COMMON_WORDS ELSE vocab_size

---------------------------------------------------------------------------
(* services/word2vec_service.py: the comparisons *)

\* an exception of class exc whose message names the words of `named`
Raised(exc, named) == [kind |-> "raise", exc |-> exc, named |-> named]

\* variant of compare_words whose error names every absent word
compare_words_NameAll(tb, word1, word2) ==
    LET absent == { w \in {word1, word2} : ~word_exists_in_model(tb, w) } IN
    IF absent # {}
    THEN Raised("ValidationError", absent)
    ELSE [kind |-> "return", word1 |-> word1, word2 |-> word2, status |-> "success"]

\* compare_words(model, word1, word2, model_name); the similarity is a
\* number that this model does not compute
compare_words(tb, word1, word2) ==
    IF ~word_exists_in_model(tb, word1)
    THEN Raised("ValidationError", {word1})
    ELSE IF ~word_exists_in_model(tb, word2)
    THEN Raised("ValidationError", {word2})
    ELSE [kind |-> "return", word1 |-> word1, word2 |-> word2, status |-> "success"]

\* a dict of a comparisons list: each of its two keys may be missing
Pair(w1, w2) == [has1 |-> TRUE, word1 |-> w1, has2 |-> TRUE, word2 |-> w2]

OnlyWord1(w1) == [has1 |-> TRUE, word1 |-> w1, has2 |-> FALSE, word2 |-> << >>]

OnlyWord2(w2) == [has1 |-> FALSE, word1 |-> << >>, has2 |-> TRUE, word2 |-> w2]

\* comp.get('word1', 'unknown')
GetWord1(comp) == IF comp.has1 THEN comp.word1 ELSE << "u", "n", "k", "n", "o", "w", "n" >>

\* comp.get('word2', 'unknown')
GetWord2(comp) == IF comp.has2 THEN comp.word2 ELSE << "u", "n", "k", "n", "o", "w", "n" >>

\* the loop of compare_words_batch from the i-th pair on, with the lists and
\* the counter it has built so far
RECURSIVE BatchLoop(_, _, _, _, _, _)
BatchLoop(tb, comparisons, i, results, successful_comparisons, failed_comparisons) ==
    IF i > Len(comparisons)
    THEN [kind |-> "return",
          results |-> results,
          total_comparisons |-> Len(comparisons),
          successful_comparisons |-> successful_comparisons,
          failed_comparisons |-> Len(failed_comparisons),
          failures |-> failed_comparisons,
          status |-> "success"]
    ELSE LET comp == comparisons[i]
             failure(error) == [index |-> i - 1, word1 |-> GetWord1(comp),
                                word2 |-> GetWord2(comp), error |-> error]
         IN  IF ~comp.has1 \/ ~comp.has2
             THEN BatchLoop(tb, comparisons, i + 1, results, successful_comparisons,
                            Append(failed_comparisons, failure("KeyError")))
             ELSE IF ~word_exists_in_model(tb, comp.word1)
             THEN BatchLoop(tb, comparisons, i + 1, results, successful_comparisons,
                            Append(failed_comparisons, failure("word1 not found in vocabulary")))
             ELSE IF ~word_exists_in_model(tb, comp.word2)
             THEN BatchLoop(tb, comparisons, i + 1, results, successful_comparisons,
                            Append(failed_comparisons, failure("word2 not found in vocabulary")))
             ELSE BatchLoop(tb, comparisons, i + 1,
                            Append(results, [word1 |-> comp.word1, word2 |-> comp.word2]),
                            successful_comparisons + 1, failed_comparisons)

\* a pair that compare_words_batch can compare
Comparable(tb, comp) ==
    /\ comp.has1 /\ comp.has2
    /\ word_exists_in_model(tb, comp.word1)
    /\ word_exists_in_model(tb, comp.word2)

\* variant of compare_words_batch that gives up at a pair it cannot compare
compare_words_batch_Abort(tb, comparisons) ==
    IF \E i \in 1..Len(comparisons) : ~Comparable(tb, comparisons[i])
    THEN Raised("ModelError", {})
    ELSE BatchLoop(tb, comparisons, 1, << >>, 0, << >>)

\* compare_words_batch(model, comparisons, model_name)
compare_words_batch(tb, comparisons) ==
    BatchLoop(tb, comparisons, 1, << >>, 0, << >>)

\* check_word_exists(model, word, model_name)
check_word_exists(tb, word) ==
    [kind |-> "return", word |-> word, exists |-> word_exists_in_model(tb, word),
     status |-> "success"]

\* get_model_info(model, model_name)
get_model_info(tb) ==
    [kind |-> "return", vocabulary_size |-> get_vocabulary_size(tb), status |-> "success"]

---------------------------------------------------------------------------
(* routes/word2vec.py and the error handlers of app.py *)

\* what current_app.model_manager.get_model(validated_model) does in a
\* request: it returns a table or raises ModelError
Loaded(tb) == [ok |-> TRUE, table |-> tb]

LoadFailed == [ok |-> FALSE, table |-> EmptyTable]

\* the base class of each exception class
BaseClass ==
    [c \in { "WordNotFoundError", "ValidationError", "ModelNotFoundError", "ModelError",
             "Word2VecServiceError" } |->
        CASE c = "WordNotFoundError" -> "ValidationError"
          [] c = "ValidationError" -> "Word2VecServiceError"
          [] c = "ModelNotFoundError" -> "ModelError"
          [] c = "ModelError" -> "Word2VecServiceError"
          [] c = "Word2VecServiceError" -> "Exception"]

\* the handlers that setup_error_handlers registers for exception classes,
\* with the status each returns
errorhandlers ==
    [c \in { "ValidationError", "ModelError", "Exception" } |->
        IF c = "ValidationError" THEN 400 ELSE 500]

\* Flask answers with the handler of the nearest class that has one
RECURSIVE HandlerStatus(_)
HandlerStatus(cls) ==
    IF cls \in DOMAIN errorhandlers THEN errorhandlers[cls] ELSE HandlerStatus(BaseClass[cls])

\* the HTTP response to a view that returned jsonify(result) or raised
Respond(outcome) ==
    IF outcome.kind = "return"
    THEN [kind |-> "http", status |-> 200, body |-> outcome]
    ELSE [kind |-> "http", status |-> HandlerStatus(outcome.exc), body |-> outcome]

\* POST /api/compare
route_compare(r) ==
    IF ~r.json THEN Raised("ValidationError", {})
    ELSE LET validated_word1 == validate_word(r.word1)
             validated_word2 == validate_word(r.word2)
             validated_model == validate_model(r.model)
         IN  IF ~validated_word1.ok THEN Raised("ValidationError", {})
             ELSE IF ~validated_word2.ok THEN Raised("ValidationError", {})
             ELSE IF ~validated_model.ok THEN Raised("ModelNotFoundError", {})
             ELSE IF ~r.load.ok THEN Raised("ModelError", {})
             ELSE compare_words(r.load.table, validated_word1.word, validated_word2.word)

\* POST /api/exists
route_exists(r) ==
    IF ~r.json THEN Raised("ValidationError", {})
    ELSE LET validated_word == validate_word(r.word)
             validated_model == validate_model(r.model)
         IN  IF ~validated_word.ok THEN Raised("ValidationError", {})
             ELSE IF ~validated_model.ok THEN Raised("ModelNotFoundError", {})
             ELSE IF ~r.load.ok THEN Raised("ModelError", {})
             ELSE check_word_exists(r.load.table, validated_word.word)

\* GET /api/info
route_info(r) ==
    LET validated_model == validate_model(r.model) IN
    IF ~validated_model.ok THEN Raised("ModelNotFoundError", {})
    ELSE IF ~r.load.ok THEN Raised("ModelError", {})
    ELSE get_model_info(r.load.table)

\* a pair of the request that the loop of the batch route rejects
BadPair(comp) ==
    \/ ~comp.has1 \/ ~comp.has2
    \/ ~validate_word(comp.word1).ok
    \/ ~validate_word(comp.word2).ok

\* the validated_comparisons list of the batch route
ValidatedComparisons(comparisons) ==
    [i \in 1..Len(comparisons) |->
        Pair(validate_word(comparisons[i].word1).word, validate_word(comparisons[i].word2).word)]

\* variant of the batch route that hands the pairs it can validate to the
\* service and leaves out the others
route_compare_batch_SkipBad(r) ==
    IF ~r.json THEN Raised("ValidationError", {})
    ELSE IF r.comparisons = << >> THEN Raised("ValidationError", {})
    ELSE IF ~validate_model(r.model).ok THEN Raised("ModelNotFoundError", {})
    ELSE IF ~r.load.ok THEN Raised("ModelError", {})
    ELSE compare_words_batch(r.load.table,
             ValidatedComparisons(SelectSeq(r.comparisons, LAMBDA c : ~BadPair(c))))

\* POST /api/compare-batch
route_compare_batch(r) ==
    IF ~r.json THEN Raised("ValidationError", {})
    ELSE IF r.comparisons = << >> THEN Raised("ValidationError", {})
    ELSE IF ~validate_model(r.model).ok THEN Raised("ModelNotFoundError", {})
    ELSE IF \E i \in 1..Len(r.comparisons) : BadPair(r.comparisons[i])
    THEN Raised("ValidationError", {})
    ELSE IF ~r.load.ok THEN Raised("ModelError", {})
    ELSE compare_words_batch(r.load.table, ValidatedComparisons(r.comparisons))

---------------------------------------------------------------------------
(* The service calls and requests tried *)

\* the longest comparisons list tried
MaxPairs == 2

\* the largest batch_size tried
MaxBatchSize == 2

\* the largest max_retries tried
MaxRetries == 2

\* the lists over S of at most n items
Lists(S, n) == UNION { [1..k -> S] : k \in 0..n }

ValidateRequests == { [op |-> "validate_word", word |-> w] : w \in WordInputs }

CompareRequests ==
    { [op |-> "compare_words", table |-> tb, word1 |-> a, word2 |-> b] :
        tb \in Tables, a \in QueryWords, b \in QueryWords }

\* pairs with both words, and dicts that lack one of the keys
ServicePairs ==
    { Pair(a, b) : a \in QueryWords, b \in QueryWords }
    \cup { OnlyWord1(<< "k", "i", "n", "g" >>), OnlyWord2(<< "k", "i", "n", "g" >>) }

BatchRequests ==
    { [op |-> "compare_words_batch", table |-> tb, comparisons |-> cs] :
        tb \in { PlainTable, DirtyTable }, cs \in Lists(ServicePairs, MaxPairs) }

SampleRequests ==
    { [op |-> "get_random_word", table |-> tb, batch_size |-> b, max_retries |-> m] :
        tb \in Tables, b \in 0..MaxBatchSize, m \in 0..MaxRetries }

\* word fields of a request body: present or absent in the table, padded,
\* invalid, missing, a number
RouteWords ==
    { StrWord(<< "k", "i", "n", "g" >>), StrWord(<< " " >> \o << "q", "u", "e", "e", "n" >>), StrWord(<< "z", "e", "b", "r", "a" >>),
      StrWord(<< "a", "-", "-", "b" >>), NoneWord, IntWord(12) }

\* the outcomes of get_model tried in a request
RouteLoads == { Loaded(PlainTable), Loaded(DirtyTable), LoadFailed }

RouteCompareRequests ==
    { [op |-> "POST /api/compare", json |-> TRUE, word1 |-> a, word2 |-> b,
       model |-> m, load |-> l] :
        a \in RouteWords, b \in RouteWords, m \in RawModels, l \in RouteLoads }
    \cup { [op |-> "POST /api/compare", json |-> FALSE, word1 |-> NoneWord, word2 |-> NoneWord,
            model |-> NoneValue, load |-> LoadFailed] }

RouteExistsRequests ==
    { [op |-> "POST /api/exists", json |-> TRUE, word |-> a, model |-> m, load |-> l] :
        a \in RouteWords, m \in RawModels, l \in RouteLoads }
    \cup { [op |-> "POST /api/exists", json |-> FALSE, word |-> NoneWord,
            model |-> NoneValue, load |-> LoadFailed] }

RouteInfoRequests ==
    { [op |-> "GET /api/info", model |-> m, load |-> l] : m \in RawModels, l \in RouteLoads }

\* pairs of a request body: of words that are present, absent or invalid,
\* and dicts that lack one of the keys
RoutePairs ==
    LET ws == { StrWord(<< "k", "i", "n", "g" >>), StrWord(<< "z", "e", "b", "r", "a" >>), StrWord(<< "a", "-", "-", "b" >>) } IN
    { Pair(a, b) : a \in ws, b \in ws } \cup { OnlyWord1(StrWord(<< "k", "i", "n", "g" >>)), OnlyWord2(StrWord(<< "k", "i", "n", "g" >>)) }

RouteBatchRequests ==
    { [op |-> "POST /api/compare-batch", json |-> TRUE, comparisons |-> cs,
       model |-> m, load |-> l] :
        cs \in Lists(RoutePairs, MaxPairs),
        m \in { NoneValue, Str(0, "no-such-model", 0) },
        l \in { Loaded(PlainTable), LoadFailed } }
    \cup { [op |-> "POST /api/compare-batch", json |-> FALSE, comparisons |-> << >>,
            model |-> NoneValue, load |-> LoadFailed] }

ServiceRequests ==
    ValidateRequests \cup CompareRequests \cup BatchRequests \cup SampleRequests
    \cup RouteCompareRequests \cup RouteExistsRequests \cup RouteInfoRequests
    \cup RouteBatchRequests

\* the ranks tried as results of random.choices(range(MAX_WORD_INDEX)): the
\* first ones, the last one, and the ranks the table describes one by one
DrawRanks(tb) ==
    LET n == MAX_WORD_INDEX(get_vocabulary_size(tb)) IN
    { r \in DOMAIN tb.at \cup {0, 1, n - 1} : 0 <= r /\ r < n }

---------------------------------------------------------------------------
VARIABLES
    loaded_models,      \* ModelManager.loaded_models : name -> table object
    model_load_times,   \* ModelManager.model_load_times : name -> seconds
    load_lock,          \* owner of ModelManager.load_lock, or Unlocked
    pc,                 \* position of each request thread
    call,               \* the operation a thread is executing and its arguments
    result,             \* what the operation returned or raised to the thread
    load_time,          \* get_model's local load_time
    heap,               \* table objects that have not been reclaimed
    loaderCalls,        \* history: executions of _load_model per name
    disturbed,          \* history: name had a failed load, a removal or a forced reload
    inherited,          \* history: error of a load that failed while the thread waited for the same name
    iter,               \* the dict iterator of a thread inside get_loaded_models_info / get_memory_usage_mb
    req,                \* the service call or HTTP request under consideration
    smp,                \* locals of Word2VecService.get_random_word
    resp                \* what the service call returned or raised, or the HTTP response

\* the variables outside ModelManager and its callers' threads
serviceVars == << req, smp, resp >>

\* the variables of ModelManager and of the threads that call it
cacheVars == << loaded_models, model_load_times, load_lock, pc, call, result,
               load_time, heap, loaderCalls, disturbed, inherited, iter >>

vars == << cacheVars, serviceVars >>

\* table objects referenced by the cache or by a caller
Live(lm, res) ==
    Values(lm) \cup { res[t].obj : t \in { u \in Threads : res[u].kind = "return" /\ res[u].obj # NoObj } }

\* garbage collection: an object stays exactly as long as it is referenced
Collect(h, lm, res) == h \cap Live(lm, res)

\* the cache after ModelManager() with every thread outside of it
CacheInit ==
    /\ loaded_models = EmptyMap
    /\ model_load_times = EmptyTimes
    /\ load_lock = Unlocked
    /\ pc = [t \in Threads |-> "idle"]
    /\ call = [t \in Threads |-> NoCall]
    /\ result = [t \in Threads |-> NoResult]
    /\ load_time = [t \in Threads |-> 0]
    /\ heap = {}
    /\ loaderCalls = [m \in AllNames |-> 0]
    /\ disturbed = [m \in AllNames |-> FALSE]
    /\ inherited = [t \in Threads |-> NoObj]
    /\ iter = [t \in Threads |-> NoIter]

Init ==
    /\ CacheInit
    /\ req = NoRequest
    /\ smp = NoSample
    /\ resp = NoResponse

---------------------------------------------------------------------------
(* Calls *)

\* get_model calls for m that wait at the lock
Pending(m) == { u \in Threads : pc[u] = "wait" /\ call[u].op = "get_model" /\ call[u].model = m }

RECURSIVE Sum(_, _)
Sum(f, S) == IF S = {} THEN 0 ELSE LET x == CHOOSE y \in S : TRUE IN f[x] + Sum(f, S \ {x})

\* executions of the loader so far, for all names
TotalLoads == Sum(loaderCalls, DOMAIN loaderCalls)

\* get_model calls of catalog names that wait at the lock
MayLoad == { u \in Threads : pc[u] = "wait" /\ call[u].op = "get_model" /\ call[u].model \in model_config }

\* an unload_model or unload_all_models call waits at the lock
UnloadPending == \E v \in Threads : pc[v] = "wait" /\ call[v].op \in {"unload_model", "unload_all_models"}

\* get_model(m, force_reload=f) may have to run the loader once it has the lock
MayMiss(m, f) == f \/ m \notin DOMAIN loaded_models \/ UnloadPending

\* waiting get_model calls that may have to run the loader
Reserved == { u \in MayLoad : MayMiss(call[u].model, call[u].force) }

\* the model explores at most MaxLoads executions of the loader: a call is
\* made only if every waiting call can still run the loader it may need
HasBudget(m, f) ==
    m \in model_config =>
        TotalLoads + Cardinality(Reserved) + (IF MayMiss(m, f) THEN 1 ELSE 0) <= MaxLoads

\* an unload is called only if every waiting get_model can still run the loader
UnloadHasBudget == TotalLoads + Cardinality(MayLoad) <= MaxLoads

\* a thread calls model_manager.get_model(m, force_reload=f) directly
CallGetModel(t, m, f) ==
    /\ pc[t] = "idle"
    /\ HasBudget(m, f)
    /\ pc' = [pc EXCEPT ![t] = "wait"]
    /\ call' = [call EXCEPT ![t] = [op |-> "get_model", model |-> m, force |-> f]]
    /\ UNCHANGED << loaded_models, model_load_times, load_lock, result, load_time,
                    heap, loaderCalls, disturbed, inherited >>
    /\ UNCHANGED << iter, serviceVars >>

\* a route handler validates the request's model and then calls get_model
RouteGetModel(t, raw) ==
    /\ pc[t] = "idle"
    /\ LET v == validate_model(raw) IN
       IF v.ok
       THEN /\ HasBudget(v.model, FALSE)
            /\ pc' = [pc EXCEPT ![t] = "wait"]
            /\ call' = [call EXCEPT ![t] = [op |-> "get_model", model |-> v.model, force |-> FALSE]]
            /\ UNCHANGED result
       ELSE /\ pc' = [pc EXCEPT ![t] = "done"]
            /\ call' = [call EXCEPT ![t] = [op |-> "route", model |-> v.model, force |-> FALSE]]
            /\ result' = [result EXCEPT ![t] = Raise("ModelNotFoundError", NoObj)]
    /\ UNCHANGED << loaded_models, model_load_times, load_lock, load_time,
                    heap, loaderCalls, disturbed, inherited >>
    /\ UNCHANGED << iter, serviceVars >>

CallUnloadModel(t, m) ==
    /\ pc[t] = "idle"
    /\ UnloadHasBudget
    /\ pc' = [pc EXCEPT ![t] = "wait"]
    /\ call' = [call EXCEPT ![t] = [op |-> "unload_model", model |-> m, force |-> FALSE]]
    /\ UNCHANGED << loaded_models, model_load_times, load_lock, result, load_time,
                    heap, loaderCalls, disturbed, inherited >>
    /\ UNCHANGED << iter, serviceVars >>

CallUnloadAll(t) ==
    /\ pc[t] = "idle"
    /\ UnloadHasBudget
    /\ pc' = [pc EXCEPT ![t] = "wait"]
    /\ call' = [call EXCEPT ![t] = [op |-> "unload_all_models", model |-> "", force |-> FALSE]]
    /\ UNCHANGED << loaded_models, model_load_times, load_lock, result, load_time,
                    heap, loaderCalls, disturbed, inherited >>
    /\ UNCHANGED << iter, serviceVars >>

---------------------------------------------------------------------------
(* get_model *)

\* variant of GetModelEnter that does not take load_lock
GetModelEnter_NoLock(t) ==
    /\ pc[t] = "wait"
    /\ call[t].op = "get_model"
    /\ LET m == call[t].model IN
       IF m \in DOMAIN loaded_models /\ ~call[t].force
       THEN /\ pc' = [pc EXCEPT ![t] = "done"]
            /\ result' = [result EXCEPT ![t] = ReturnModel(loaded_models[m])]
            /\ UNCHANGED << loaderCalls, disturbed >>
       ELSE IF m \notin model_config
       THEN /\ pc' = [pc EXCEPT ![t] = "done"]
            /\ result' = [result EXCEPT ![t] = Raise("ModelError", NoObj)]
            /\ UNCHANGED << loaderCalls, disturbed >>
       ELSE /\ pc' = [pc EXCEPT ![t] = "loading"]
            /\ loaderCalls' = [loaderCalls EXCEPT ![m] = @ + 1]
            /\ disturbed' = [disturbed EXCEPT ![m] = @ \/ call[t].force]
            /\ UNCHANGED result
    /\ UNCHANGED << loaded_models, model_load_times, load_lock, call, load_time, heap, inherited >>
    /\ UNCHANGED << iter, serviceVars >>

\* variant of GetModelEnter that returns a cached table before taking load_lock
GetModelEnter_FastPath(t) ==
    /\ pc[t] = "wait"
    /\ call[t].op = "get_model"
    /\ LET m == call[t].model IN
       IF m \in DOMAIN loaded_models /\ ~call[t].force
       THEN /\ pc' = [pc EXCEPT ![t] = "done"]
            /\ result' = [result EXCEPT ![t] = ReturnModel(loaded_models[m])]
            /\ UNCHANGED << load_lock, loaderCalls, disturbed >>
       ELSE /\ load_lock = Unlocked
            /\ IF m \notin model_config
               THEN /\ pc' = [pc EXCEPT ![t] = "done"]
                    /\ result' = [result EXCEPT ![t] = Raise("ModelError", NoObj)]
                    /\ UNCHANGED << load_lock, loaderCalls, disturbed >>
               ELSE /\ pc' = [pc EXCEPT ![t] = "loading"]
                    /\ load_lock' = t
                    /\ loaderCalls' = [loaderCalls EXCEPT ![m] = @ + 1]
                    /\ disturbed' = [disturbed EXCEPT ![m] = @ \/ call[t].force]
                    /\ UNCHANGED result
    /\ UNCHANGED << loaded_models, model_load_times, call, load_time, heap, inherited >>
    /\ UNCHANGED << iter, serviceVars >>

\* variant of GetModelEnter without the `model_name not in self.model_config` check
GetModelEnter_NoCatalogCheck(t) ==
    /\ pc[t] = "wait"
    /\ call[t].op = "get_model"
    /\ load_lock = Unlocked
    /\ LET m == call[t].model IN
       IF m \in DOMAIN loaded_models /\ ~call[t].force
       THEN /\ pc' = [pc EXCEPT ![t] = "done"]
            /\ result' = [result EXCEPT ![t] = ReturnModel(loaded_models[m])]
            /\ UNCHANGED << load_lock, loaderCalls, disturbed >>
       ELSE /\ pc' = [pc EXCEPT ![t] = "loading"]
            /\ load_lock' = t
            /\ loaderCalls' = [loaderCalls EXCEPT ![m] = @ + 1]
            /\ disturbed' = [disturbed EXCEPT ![m] = @ \/ call[t].force]
            /\ UNCHANGED result
    /\ UNCHANGED << loaded_models, model_load_times, call, load_time, heap, inherited >>
    /\ UNCHANGED << iter, serviceVars >>

\* variant of GetModelEnter that enters the name into loaded_models before
\* the loader is called
GetModelEnter_PublishEarly(t) ==
    /\ pc[t] = "wait"
    /\ call[t].op = "get_model"
    /\ load_lock = Unlocked
    /\ LET m == call[t].model IN
       IF m \in DOMAIN loaded_models /\ ~call[t].force
       THEN /\ pc' = [pc EXCEPT ![t] = "done"]
            /\ result' = [result EXCEPT ![t] = ReturnModel(loaded_models[m])]
            /\ UNCHANGED << loaded_models, load_lock, loaderCalls, disturbed >>
       ELSE IF m \notin model_config
       THEN /\ pc' = [pc EXCEPT ![t] = "done"]
            /\ result' = [result EXCEPT ![t] = Raise("ModelError", NoObj)]
            /\ UNCHANGED << loaded_models, load_lock, loaderCalls, disturbed >>
       ELSE /\ pc' = [pc EXCEPT ![t] = "loading"]
            /\ load_lock' = t
            /\ loaderCalls' = [loaderCalls EXCEPT ![m] = @ + 1]
            /\ loaded_models' = Put(loaded_models, m, << m, loaderCalls[m] + 1 >>)
            /\ disturbed' = [disturbed EXCEPT ![m] = @ \/ call[t].force]
            /\ UNCHANGED result
    /\ UNCHANGED << model_load_times, call, load_time, heap, inherited >>
    /\ UNCHANGED << iter, serviceVars >>

\* `with self.load_lock:` up to the call of the loader
GetModelEnter(t) ==
    /\ pc[t] = "wait"
    /\ call[t].op = "get_model"
    /\ load_lock = Unlocked
    /\ LET m == call[t].model IN
       IF m \in DOMAIN loaded_models /\ ~call[t].force
       THEN /\ pc' = [pc EXCEPT ![t] = "done"]
            /\ result' = [result EXCEPT ![t] = ReturnModel(loaded_models[m])]
            /\ UNCHANGED << load_lock, loaderCalls, disturbed >>
       ELSE IF m \notin model_config
       THEN /\ pc' = [pc EXCEPT ![t] = "done"]
            /\ result' = [result EXCEPT ![t] = Raise("ModelError", NoObj)]
            /\ UNCHANGED << load_lock, loaderCalls, disturbed >>
       ELSE /\ pc' = [pc EXCEPT ![t] = "loading"]
            /\ load_lock' = t
            /\ loaderCalls' = [loaderCalls EXCEPT ![m] = @ + 1]
            /\ disturbed' = [disturbed EXCEPT ![m] = @ \/ call[t].force]
            /\ UNCHANGED result
    /\ UNCHANGED << loaded_models, model_load_times, call, load_time, heap, inherited >>
    /\ UNCHANGED << iter, serviceVars >>

\* the table or error of the loader execution thread t is in
CurrentLoad(t) == << call[t].model, loaderCalls[call[t].model] >>

\* variant of LoadSucceed that keeps only the table it has just loaded
LoadSucceed_EvictOthers(t, d) ==
    /\ pc[t] = "loading"
    /\ LET m == call[t].model
           model == CurrentLoad(t) IN
       /\ loaded_models' = [x \in {m} |-> model]
       /\ heap' = Collect(heap \cup {model}, loaded_models', result)
    /\ load_time' = [load_time EXCEPT ![t] = d]
    /\ pc' = [pc EXCEPT ![t] = "caching"]
    /\ UNCHANGED << model_load_times, load_lock, call, result, loaderCalls, disturbed, inherited >>
    /\ UNCHANGED << iter, serviceVars >>

\* _load_model returns a table after d seconds; it is put into loaded_models
LoadSucceed(t, d) ==
    /\ pc[t] = "loading"
    /\ LET m == call[t].model
           model == CurrentLoad(t) IN
       /\ loaded_models' = Put(loaded_models, m, model)
       /\ heap' = Collect(heap \cup {model}, loaded_models', result)
    /\ load_time' = [load_time EXCEPT ![t] = d]
    /\ pc' = [pc EXCEPT ![t] = "caching"]
    /\ UNCHANGED << model_load_times, load_lock, call, result, loaderCalls, disturbed, inherited >>
    /\ UNCHANGED << iter, serviceVars >>

\* variant of StoreLoadTime that records no load time
StoreLoadTime_NoTime(t) ==
    /\ pc[t] = "caching"
    /\ result' = [result EXCEPT ![t] = ReturnModel(loaded_models[call[t].model])]
    /\ load_time' = [load_time EXCEPT ![t] = 0]
    /\ load_lock' = Unlocked
    /\ pc' = [pc EXCEPT ![t] = "done"]
    /\ UNCHANGED << loaded_models, model_load_times, call, heap, loaderCalls, disturbed, inherited >>
    /\ UNCHANGED << iter, serviceVars >>

\* the load time is recorded, the table returned and the lock released
StoreLoadTime(t) ==
    /\ pc[t] = "caching"
    /\ LET m == call[t].model IN
       /\ model_load_times' = Put(model_load_times, m, load_time[t])
       /\ result' = [result EXCEPT ![t] = ReturnModel(loaded_models[m])]
    /\ load_time' = [load_time EXCEPT ![t] = 0]
    /\ load_lock' = Unlocked
    /\ pc' = [pc EXCEPT ![t] = "done"]
    /\ UNCHANGED << loaded_models, call, heap, loaderCalls, disturbed, inherited >>
    /\ UNCHANGED << iter, serviceVars >>

\* variant of LoadFail that hands the error to the callers waiting for the same name
LoadFail_Broadcast(t) ==
    /\ pc[t] = "loading"
    /\ LET m == call[t].model IN
       /\ result' = [u \in Threads |->
                       IF u = t \/ u \in Pending(m)
                       THEN Raise("ModelError", CurrentLoad(t)) ELSE result[u]]
       /\ disturbed' = [disturbed EXCEPT ![m] = TRUE]
       /\ inherited' = [u \in Threads |->
                          IF u \in Pending(m) THEN CurrentLoad(t) ELSE inherited[u]]
       /\ pc' = [u \in Threads |-> IF u = t \/ u \in Pending(m) THEN "done" ELSE pc[u]]
    /\ load_lock' = Unlocked
    /\ UNCHANGED << loaded_models, model_load_times, call, load_time, heap, loaderCalls >>
    /\ UNCHANGED << iter, serviceVars >>

\* variant of LoadFail that leaves the failed load in the cache
LoadFail_Poison(t) ==
    /\ pc[t] = "loading"
    /\ LET m == call[t].model IN
       /\ result' = [result EXCEPT ![t] = Raise("ModelError", CurrentLoad(t))]
       /\ disturbed' = [disturbed EXCEPT ![m] = TRUE]
       /\ inherited' = [u \in Threads |->
                          IF u \in Pending(m) THEN CurrentLoad(t) ELSE inherited[u]]
       /\ loaded_models' = Put(loaded_models, m, CurrentLoad(t))
    /\ load_lock' = Unlocked
    /\ pc' = [pc EXCEPT ![t] = "done"]
    /\ UNCHANGED << model_load_times, call, load_time, heap, loaderCalls >>
    /\ UNCHANGED << iter, serviceVars >>

\* variant of LoadFail that drops the entry of the name whose load failed
LoadFail_DropEntry(t) ==
    /\ pc[t] = "loading"
    /\ LET m == call[t].model IN
       /\ result' = [result EXCEPT ![t] = Raise("ModelError", CurrentLoad(t))]
       /\ disturbed' = [disturbed EXCEPT ![m] = TRUE]
       /\ inherited' = [u \in Threads |->
                          IF u \in Pending(m) THEN CurrentLoad(t) ELSE inherited[u]]
       /\ loaded_models' = Remove(loaded_models, m)
       /\ model_load_times' = Remove(model_load_times, m)
       /\ heap' = Collect(heap, loaded_models', result')
    /\ load_lock' = Unlocked
    /\ pc' = [pc EXCEPT ![t] = "done"]
    /\ UNCHANGED << call, load_time, loaderCalls >>
    /\ UNCHANGED << iter, serviceVars >>

\* variant of LoadFail that leaves load_lock with the thread whose load failed
LoadFail_KeepLock(t) ==
    /\ pc[t] = "loading"
    /\ LET m == call[t].model IN
       /\ result' = [result EXCEPT ![t] = Raise("ModelError", CurrentLoad(t))]
       /\ disturbed' = [disturbed EXCEPT ![m] = TRUE]
       /\ inherited' = [u \in Threads |->
                          IF u \in Pending(m) THEN CurrentLoad(t) ELSE inherited[u]]
    /\ pc' = [pc EXCEPT ![t] = "done"]
    /\ UNCHANGED << loaded_models, model_load_times, load_lock, call, load_time, heap, loaderCalls >>
    /\ UNCHANGED << iter, serviceVars >>

\* _load_model raises; get_model raises ModelError and releases the lock
LoadFail(t) ==
    /\ pc[t] = "loading"
    /\ LET m == call[t].model IN
       /\ result' = [result EXCEPT ![t] = Raise("ModelError", CurrentLoad(t))]
       /\ disturbed' = [disturbed EXCEPT ![m] = TRUE]
       /\ inherited' = [u \in Threads |->
                          IF u \in Pending(m) THEN CurrentLoad(t) ELSE inherited[u]]
    /\ load_lock' = Unlocked
    /\ pc' = [pc EXCEPT ![t] = "done"]
    /\ UNCHANGED << loaded_models, model_load_times, call, load_time, heap, loaderCalls >>
    /\ UNCHANGED << iter, serviceVars >>

---------------------------------------------------------------------------
(* unload_model, unload_all_models *)

\* variant of UnloadModelEnter that destroys the table it removes
UnloadModelEnter_Free(t) ==
    /\ pc[t] = "wait"
    /\ call[t].op = "unload_model"
    /\ load_lock = Unlocked
    /\ LET m == call[t].model IN
       IF m \in DOMAIN loaded_models
       THEN /\ loaded_models' = Remove(loaded_models, m)
            /\ heap' = heap \ {loaded_models[m]}
            /\ disturbed' = [disturbed EXCEPT ![m] = TRUE]
            /\ load_lock' = t
            /\ pc' = [pc EXCEPT ![t] = "unloading"]
            /\ UNCHANGED result
       ELSE /\ result' = [result EXCEPT ![t] = ReturnBool(FALSE)]
            /\ pc' = [pc EXCEPT ![t] = "done"]
            /\ UNCHANGED << loaded_models, heap, disturbed, load_lock >>
    /\ UNCHANGED << model_load_times, call, load_time, loaderCalls, inherited >>
    /\ UNCHANGED << iter, serviceVars >>

\* `with self.load_lock:` and the removal from loaded_models
UnloadModelEnter(t) ==
    /\ pc[t] = "wait"
    /\ call[t].op = "unload_model"
    /\ load_lock = Unlocked
    /\ LET m == call[t].model IN
       IF m \in DOMAIN loaded_models
       THEN /\ loaded_models' = Remove(loaded_models, m)
            /\ heap' = Collect(heap, loaded_models', result)
            /\ disturbed' = [disturbed EXCEPT ![m] = TRUE]
            /\ load_lock' = t
            /\ pc' = [pc EXCEPT ![t] = "unloading"]
            /\ UNCHANGED result
       ELSE /\ result' = [result EXCEPT ![t] = ReturnBool(FALSE)]
            /\ pc' = [pc EXCEPT ![t] = "done"]
            /\ UNCHANGED << loaded_models, heap, disturbed, load_lock >>
    /\ UNCHANGED << model_load_times, call, load_time, loaderCalls, inherited >>
    /\ UNCHANGED << iter, serviceVars >>

\* variant of UnloadModelFinish that keeps the load time
UnloadModelFinish_KeepTime(t) ==
    /\ pc[t] = "unloading"
    /\ result' = [result EXCEPT ![t] = ReturnBool(TRUE)]
    /\ load_lock' = Unlocked
    /\ pc' = [pc EXCEPT ![t] = "done"]
    /\ UNCHANGED << loaded_models, model_load_times, call, load_time, heap, loaderCalls,
                    disturbed, inherited >>
    /\ UNCHANGED << iter, serviceVars >>

\* the removal from model_load_times, `return True` and the release of the lock
UnloadModelFinish(t) ==
    /\ pc[t] = "unloading"
    /\ LET m == call[t].model IN
       model_load_times' = IF m \in DOMAIN model_load_times
                           THEN Remove(model_load_times, m)
                           ELSE model_load_times
    /\ result' = [result EXCEPT ![t] = ReturnBool(TRUE)]
    /\ load_lock' = Unlocked
    /\ pc' = [pc EXCEPT ![t] = "done"]
    /\ UNCHANGED << loaded_models, call, load_time, heap, loaderCalls, disturbed, inherited >>
    /\ UNCHANGED << iter, serviceVars >>

\* `with self.load_lock:` and loaded_models.clear()
UnloadAllEnter(t) ==
    /\ pc[t] = "wait"
    /\ call[t].op = "unload_all_models"
    /\ load_lock = Unlocked
    /\ loaded_models' = EmptyMap
    /\ heap' = Collect(heap, loaded_models', result)
    /\ disturbed' = [m \in AllNames |-> disturbed[m] \/ m \in DOMAIN loaded_models]
    /\ load_lock' = t
    /\ pc' = [pc EXCEPT ![t] = "clearing"]
    /\ UNCHANGED << model_load_times, call, result, load_time, loaderCalls, inherited >>
    /\ UNCHANGED << iter, serviceVars >>

\* variant of UnloadAllFinish that leaves model_load_times as it is
UnloadAllFinish_KeepTimes(t) ==
    /\ pc[t] = "clearing"
    /\ result' = [result EXCEPT ![t] = ReturnBool(FALSE)]
    /\ load_lock' = Unlocked
    /\ pc' = [pc EXCEPT ![t] = "done"]
    /\ UNCHANGED << loaded_models, model_load_times, call, load_time, heap, loaderCalls,
                    disturbed, inherited >>
    /\ UNCHANGED << iter, serviceVars >>

\* model_load_times.clear() and the release of the lock; returns None
UnloadAllFinish(t) ==
    /\ pc[t] = "clearing"
    /\ model_load_times' = EmptyTimes
    /\ result' = [result EXCEPT ![t] = ReturnBool(FALSE)]
    /\ load_lock' = Unlocked
    /\ pc' = [pc EXCEPT ![t] = "done"]
    /\ UNCHANGED << loaded_models, call, load_time, heap, loaderCalls, disturbed, inherited >>
    /\ UNCHANGED << iter, serviceVars >>

---------------------------------------------------------------------------
(* The caller *)

\* the caller's query on the table it holds completes (or its error is
\* handled) and the request ends, dropping the reference
Finish(t) ==
    /\ pc[t] = "done"
    /\ pc' = [pc EXCEPT ![t] = "idle"]
    /\ call' = [call EXCEPT ![t] = NoCall]
    /\ result' = [result EXCEPT ![t] = NoResult]
    /\ inherited' = [inherited EXCEPT ![t] = NoObj]
    /\ heap' = Collect(heap, loaded_models, result')
    /\ UNCHANGED << loaded_models, model_load_times, load_lock, load_time, loaderCalls, disturbed >>
    /\ UNCHANGED << iter, serviceVars >>

---------------------------------------------------------------------------
Next ==
    \/ \E t \in Threads, a \in GetModelArgs : CallGetModel(t, a[1], a[2])
    \/ \E t \in Threads, raw \in RawModels : RouteGetModel(t, raw)
    \/ \E t \in Threads, m \in RequestModels \cap model_config : CallUnloadModel(t, m)
    \/ \E t \in Threads : CallUnloadAll(t)
    \/ \E t \in Threads : GetModelEnter(t)
    \/ \E t \in Threads, d \in LoadDurations : LoadSucceed(t, d)
    \/ \E t \in Threads : StoreLoadTime(t)
    \/ \E t \in Threads : LoadFail(t)
    \/ \E t \in Threads : UnloadModelEnter(t)
    \/ \E t \in Threads : UnloadModelFinish(t)
    \/ \E t \in Threads : UnloadAllEnter(t)
    \/ \E t \in Threads : UnloadAllFinish(t)
    \/ \E t \in Threads : Finish(t)

Spec == Init /\ [][Next]_vars

---------------------------------------------------------------------------
(* The cache under fair scheduling *)

\* thread t gets past `with self.load_lock:` of the call it waits in
Acquire(t) == GetModelEnter(t) \/ UnloadModelEnter(t) \/ UnloadAllEnter(t)

\* the thread that owns load_lock takes its next step: the loader returns
\* or raises, the maps are updated, the `with` block is left
OwnerStep ==
    \E t \in Threads :
        \/ \E d \in LoadDurations : LoadSucceed(t, d)
        \/ StoreLoadTime(t)
        \/ LoadFail(t)
        \/ UnloadModelFinish(t)
        \/ UnloadAllFinish(t)

\* every execution of the loader terminates and a running thread goes on
\* running; a thread that finds load_lock free again and again eventually
\* acquires it
Fairness ==
    /\ WF_vars(OwnerStep)
    /\ \A t \in Threads : SF_vars(Acquire(t))

\* the arguments of the calls under fair scheduling: one catalog name, with
\* and without force_reload, and the name outside the catalog
FairArgs == { a \in GetModelArgs : a[1] # "glove-wiki-gigaword-50" }

NextFair ==
    \/ \E t \in Threads, a \in FairArgs : CallGetModel(t, a[1], a[2])
    \/ \E t \in Threads : CallUnloadModel(t, DEFAULT_MODEL)
    \/ \E t \in Threads : CallUnloadAll(t)
    \/ \E t \in Threads : GetModelEnter(t)
    \/ \E t \in Threads : LoadSucceed(t, 1)
    \/ \E t \in Threads : StoreLoadTime(t)
    \/ \E t \in Threads : LoadFail(t)
    \/ \E t \in Threads : UnloadModelEnter(t)
    \/ \E t \in Threads : UnloadModelFinish(t)
    \/ \E t \in Threads : UnloadAllEnter(t)
    \/ \E t \in Threads : UnloadAllFinish(t)
    \/ \E t \in Threads : Finish(t)

SpecFair == Init /\ [][NextFair]_vars /\ Fairness

---------------------------------------------------------------------------
(* The readers that do not take load_lock *)

\* the methods that loop over self.loaded_models.items()
IteratingReaders == { "get_loaded_models_info", "get_memory_usage_mb" }

\* the readers that take one snapshot or look names up one by one
SnapshotReaders == { "health_check", "word2vec_health", "get_available_models" }

\* `for model_name, model in self.loaded_models.items():` creates the
\* iterator, which remembers the dict as it is at that moment
CallReader(t, op) ==
    /\ pc[t] = "idle"
    /\ pc' = [pc EXCEPT ![t] = "iterating"]
    /\ call' = [call EXCEPT ![t] = [op |-> op, model |-> "", force |-> FALSE]]
    /\ iter' = [iter EXCEPT ![t] = [keys |-> DOMAIN loaded_models, pos |-> 0]]
    /\ UNCHANGED << loaded_models, model_load_times, load_lock, result, load_time,
                    heap, loaderCalls, disturbed, inherited >>
    /\ UNCHANGED serviceVars

\* the iterator is asked for the next item.  A dict whose size differs from
\* the size at the creation of the iterator makes it raise RuntimeError, which
\* the try inside the loop body does not cover; with the size unchanged but
\* other keys, the iterator raises or goes on, depending on the dict's layout.
\* An item's body cannot raise: it is wrapped in try/except.
ReaderNext(t) ==
    /\ pc[t] = "iterating"
    /\ LET now == DOMAIN loaded_models
           used == Cardinality(iter[t].keys)
           fail == /\ result' = [result EXCEPT ![t] = Raise("RuntimeError", NoObj)]
                   /\ pc' = [pc EXCEPT ![t] = "done"]
                   /\ iter' = [iter EXCEPT ![t] = NoIter]
       IN  \/ /\ Cardinality(now) # used
              /\ fail
           \/ /\ Cardinality(now) = used
              /\ now # iter[t].keys
              /\ fail
           \/ /\ Cardinality(now) = used
              /\ iter[t].pos < used
              /\ iter' = [iter EXCEPT ![t].pos = @ + 1]
              /\ UNCHANGED << pc, result >>
           \/ /\ Cardinality(now) = used
              /\ iter[t].pos >= used
              /\ result' = [result EXCEPT ![t] = ReturnBool(TRUE)]
              /\ pc' = [pc EXCEPT ![t] = "done"]
              /\ iter' = [iter EXCEPT ![t] = NoIter]
    /\ UNCHANGED << loaded_models, model_load_times, load_lock, call, load_time,
                    heap, loaderCalls, disturbed, inherited >>
    /\ UNCHANGED serviceVars

\* list(loaded_models.keys()) of the health handlers is one uninterrupted
\* copy; get_available_models loops over the constant model_config and reads
\* the maps with `in`, .get and a lookup inside try/except
SnapshotRead(t, op) ==
    /\ pc[t] = "idle"
    /\ pc' = [pc EXCEPT ![t] = "done"]
    /\ call' = [call EXCEPT ![t] = [op |-> op, model |-> "", force |-> FALSE]]
    /\ result' = [result EXCEPT ![t] = ReturnBool(TRUE)]
    /\ UNCHANGED << loaded_models, model_load_times, load_lock, load_time,
                    heap, loaderCalls, disturbed, inherited, iter >>
    /\ UNCHANGED serviceVars

NextReaders ==
    \/ Next
    \/ \E t \in Threads, op \in IteratingReaders : CallReader(t, op)
    \/ \E t \in Threads : ReaderNext(t)
    \/ \E t \in Threads, op \in SnapshotReaders : SnapshotRead(t, op)

SpecReaders == Init /\ [][NextReaders]_vars

---------------------------------------------------------------------------
(* Calls of the validation and service functions, and requests *)

\* a call or request is given and is then carried out
InitService ==
    /\ CacheInit
    /\ req \in ServiceRequests
    /\ smp = NoSample
    /\ resp = NoResponse

\* what the caller of validate_word gets
ValidateWord ==
    /\ req.op = "validate_word"
    /\ resp = NoResponse
    /\ LET v == validate_word(req.word) IN
       resp' = IF v.ok THEN [kind |-> "return", word |-> v.word]
                       ELSE Raised("ValidationError", {})
    /\ UNCHANGED << cacheVars, req, smp >>

CompareWords ==
    /\ req.op = "compare_words"
    /\ resp = NoResponse
    /\ resp' = compare_words(req.table, req.word1, req.word2)
    /\ UNCHANGED << cacheVars, req, smp >>

CompareWordsBatch ==
    /\ req.op = "compare_words_batch"
    /\ resp = NoResponse
    /\ resp' = compare_words_batch(req.table, req.comparisons)
    /\ UNCHANGED << cacheVars, req, smp >>

HandleCompare ==
    /\ req.op = "POST /api/compare"
    /\ resp = NoResponse
    /\ resp' = Respond(route_compare(req))
    /\ UNCHANGED << cacheVars, req, smp >>

HandleExists ==
    /\ req.op = "POST /api/exists"
    /\ resp = NoResponse
    /\ resp' = Respond(route_exists(req))
    /\ UNCHANGED << cacheVars, req, smp >>

HandleInfo ==
    /\ req.op = "GET /api/info"
    /\ resp = NoResponse
    /\ resp' = Respond(route_info(req))
    /\ UNCHANGED << cacheVars, req, smp >>

HandleCompareBatch ==
    /\ req.op = "POST /api/compare-batch"
    /\ resp = NoResponse
    /\ resp' = Respond(route_compare_batch(req))
    /\ UNCHANGED << cacheVars, req, smp >>

---------------------------------------------------------------------------
(* Word2VecService.get_random_word, step by step *)

\* the locals of get_random_word: where it is, the attempt, the batch of
\* ranks of the attempt, the position in the batch, the ranks drawn so far
Sampling(at, attempt, batch, i, draws) ==
    [at |-> at, attempt |-> attempt, batch_indices |-> batch, i |-> i, draws |-> draws]

\* variant of SampleStart that goes on with an empty vocabulary
SampleStart_NoEmptyCheck ==
    /\ req.op = "get_random_word"
    /\ smp = NoSample
    /\ smp' = Sampling("attempt", 0, << >>, 0, 0)
    /\ UNCHANGED << cacheVars, req, resp >>

\* the vocabulary size is taken; an empty vocabulary raises ModelError
SampleStart ==
    /\ req.op = "get_random_word"
    /\ smp = NoSample
    /\ IF get_vocabulary_size(req.table) = 0
       THEN /\ resp' = Raised("ModelError", {})
            /\ smp' = Sampling("end", 0, << >>, 0, 0)
       ELSE /\ smp' = Sampling("attempt", 0, << >>, 0, 0)
            /\ UNCHANGED resp
    /\ UNCHANGED << cacheVars, req >>

\* `for attempt in range(max_retries)`: random.choices draws the batch of
\* batch_size ranks
SampleBatch ==
    /\ req.op = "get_random_word"
    /\ smp # NoSample
    /\ smp.at = "attempt"
    /\ smp.attempt < req.max_retries
    /\ \E b \in [1..req.batch_size -> DrawRanks(req.table)] :
           smp' = Sampling("examine", smp.attempt, b, 1, smp.draws + Len(b))
    /\ UNCHANGED << cacheVars, req, resp >>

\* variant of SampleExamine that does not check the drawn word against the
\* vocabulary
SampleExamine_NoExistsCheck ==
    /\ smp # NoSample
    /\ smp.at = "examine"
    /\ IF smp.i > Len(smp.batch_indices)
       THEN /\ smp' = Sampling("attempt", smp.attempt + 1, << >>, 0, smp.draws)
            /\ UNCHANGED resp
       ELSE LET index == smp.batch_indices[smp.i]
                word == get_word_at_index(req.table, index) IN
            IF word # << >> /\ is_clean_word(word)
            THEN /\ resp' = [kind |-> "return", word |-> word, word_index |-> index,
                             batch_attempt |-> smp.attempt + 1, fallback_used |-> FALSE]
                 /\ smp' = [smp EXCEPT !.at = "end"]
            ELSE /\ smp' = [smp EXCEPT !.i = @ + 1]
                 /\ UNCHANGED resp
    /\ UNCHANGED << cacheVars, req >>

\* variant of SampleExamine that gives up the batch at its first rejected rank
SampleExamine_StopOnReject ==
    /\ smp # NoSample
    /\ smp.at = "examine"
    /\ IF smp.i > Len(smp.batch_indices)
       THEN /\ smp' = Sampling("attempt", smp.attempt + 1, << >>, 0, smp.draws)
            /\ UNCHANGED resp
       ELSE LET index == smp.batch_indices[smp.i]
                word == get_word_at_index(req.table, index) IN
            IF word # << >> /\ is_clean_word(word) /\ word_exists_in_model(req.table, word)
            THEN /\ resp' = [kind |-> "return", word |-> word, word_index |-> index,
                             batch_attempt |-> smp.attempt + 1, fallback_used |-> FALSE]
                 /\ smp' = [smp EXCEPT !.at = "end"]
            ELSE /\ smp' = Sampling("attempt", smp.attempt + 1, << >>, 0, smp.draws)
                 /\ UNCHANGED resp
    /\ UNCHANGED << cacheVars, req >>

\* the next rank of the batch is looked at: its word is returned if it is
\* clean and in the vocabulary; after the last rank the attempt is over
SampleExamine ==
    /\ smp # NoSample
    /\ smp.at = "examine"
    /\ IF smp.i > Len(smp.batch_indices)
       THEN /\ smp' = Sampling("attempt", smp.attempt + 1, << >>, 0, smp.draws)
            /\ UNCHANGED resp
       ELSE LET index == smp.batch_indices[smp.i]
                word == get_word_at_index(req.table, index) IN
            IF word # << >> /\ is_clean_word(word) /\ word_exists_in_model(req.table, word)
            THEN /\ resp' = [kind |-> "return", word |-> word, word_index |-> index,
                             batch_attempt |-> smp.attempt + 1, fallback_used |-> FALSE]
                 /\ smp' = [smp EXCEPT !.at = "end"]
            ELSE /\ smp' = [smp EXCEPT !.i = @ + 1]
                 /\ UNCHANGED resp
    /\ UNCHANGED << cacheVars, req >>

\* after the last attempt the fallback word is returned, c being the
\* position that random.choice picks
SampleFallback(c) ==
    /\ smp # NoSample
    /\ smp.at = "attempt"
    /\ ~(smp.attempt < req.max_retries)
    /\ resp' = [kind |-> "return", word |-> get_fallback_word(req.table, c), word_index |-> 0 - 1,
                batch_attempt |-> req.max_retries, fallback_used |-> TRUE]
    /\ smp' = [smp EXCEPT !.at = "end"]
    /\ UNCHANGED << cacheVars, req >>

NextService ==
    \/ ValidateWord
    \/ CompareWords
    \/ CompareWordsBatch
    \/ HandleCompare
    \/ HandleExists
    \/ HandleInfo
    \/ HandleCompareBatch
    \/ SampleStart
    \/ SampleBatch
    \/ SampleExamine
    \/ \E c \in 1..Len(fallback_words) : SampleFallback(c)

SpecService == InitService /\ [][NextService]_vars

---------------------------------------------------------------------------
(* A request to a route, served by a thread on the shared cache *)

\* the defaults of get_random_word's batch_size and max_retries
DEFAULT_BATCH_SIZE == 10

DEFAULT_MAX_RETRIES == 5

\* get_random_word(model, model_name) with the defaults, given the ranks
\* that random.choices draws over all attempts, in draw order, and the
\* position c that random.choice picks
get_random_word(tb, draws, c) ==
    IF get_vocabulary_size(tb) = 0
    THEN Raised("ModelError", {})
    ELSE LET hits == { k \in 1..Len(draws) :
                         LET word == get_word_at_index(tb, draws[k]) IN
                         word # << >> /\ is_clean_word(word) /\ word_exists_in_model(tb, word) } IN
         IF hits # {}
         THEN LET k == CHOOSE h \in hits : \A j \in hits : h <= j IN
              [kind |-> "return", word |-> get_word_at_index(tb, draws[k]), word_index |-> draws[k],
               batch_attempt |-> ((k - 1) \div DEFAULT_BATCH_SIZE) + 1, fallback_used |-> FALSE]
         ELSE [kind |-> "return", word |-> get_fallback_word(tb, c), word_index |-> 0 - 1,
               batch_attempt |-> DEFAULT_MAX_RETRIES, fallback_used |-> TRUE]

\* POST /api/random
route_random(r) ==
    LET validated_model == validate_model(r.model) IN
    IF ~validated_model.ok THEN Raised("ModelNotFoundError", {})
    ELSE IF ~r.load.ok THEN Raised("ModelError", {})
    ELSE get_random_word(r.load.table, r.draws, r.choice)

\* the view function of the route of request r
Route(r) ==
    CASE r.op = "POST /api/compare" -> route_compare(r)
      [] r.op = "POST /api/exists" -> route_exists(r)
      [] r.op = "GET /api/info" -> route_info(r)
      [] r.op = "POST /api/compare-batch" -> route_compare_batch(r)
      [] r.op = "POST /api/random" -> route_random(r)

\* variant of BeforeGetModel in which only the model name is validated
\* before get_model is called
BeforeGetModel_ModelOnly(r) ==
    LET validated_model == validate_model(r.model) IN
    [ok |-> validated_model.ok, model |-> validated_model.model]

\* the statements of a route in front of its get_model call: whether they
\* all pass, and the validated model name that get_model is then called with
BeforeGetModel(r) ==
    LET validated_model == validate_model(r.model)
        rejected == [ok |-> FALSE, model |-> validated_model.model]
        passed == [ok |-> validated_model.ok, model |-> validated_model.model]
    IN  CASE r.op = "POST /api/compare" ->
                 IF ~r.json THEN rejected
                 ELSE IF ~validate_word(r.word1).ok THEN rejected
                 ELSE IF ~validate_word(r.word2).ok THEN rejected
                 ELSE passed
          [] r.op = "POST /api/exists" ->
                 IF ~r.json THEN rejected
                 ELSE IF ~validate_word(r.word).ok THEN rejected
                 ELSE passed
          [] r.op = "GET /api/info" -> passed
          [] r.op = "POST /api/compare-batch" ->
                 IF ~r.json THEN rejected
                 ELSE IF r.comparisons = << >> THEN rejected
                 ELSE IF ~validated_model.ok THEN rejected
                 ELSE IF \E i \in 1..Len(r.comparisons) : BadPair(r.comparisons[i]) THEN rejected
                 ELSE passed
          [] r.op = "POST /api/random" -> passed

\* thread t is inside get_model on behalf of the request
Serving(t) == [kind |-> "serving", thread |-> t]

\* the model fields tried: absent, a catalog name with whitespace around it,
\* a name outside the catalog
RoutedModels == { NoneValue, Str(1, "glove-wiki-gigaword-50", 1), Str(0, "no-such-model", 0) }

\* the word fields tried: valid, invalid, missing
RoutedWords == { StrWord(<< "k", "i", "n", "g" >>), StrWord(<< "a", "-", "-", "b" >>), NoneWord }

\* the pairs tried: valid, with an invalid word, lacking a key
RoutedPairs ==
    { Pair(StrWord(<< "k", "i", "n", "g" >>), StrWord(<< "z", "e", "b", "r", "a" >>)),
      Pair(StrWord(<< "k", "i", "n", "g" >>), StrWord(<< "a", "-", "-", "b" >>)),
      OnlyWord1(StrWord(<< "k", "i", "n", "g" >>)) }

\* the ranks drawn in the five batches of ten: rank 3 of PlainTable, whose
\* word is too short, and then any rank
RoutedDraws ==
    { [i \in 1..(DEFAULT_BATCH_SIZE * DEFAULT_MAX_RETRIES) |->
          IF i < DEFAULT_BATCH_SIZE * DEFAULT_MAX_RETRIES THEN 3 ELSE b] : b \in DrawRanks(PlainTable) }

\* the requests served on the shared cache; load.table is the content of
\* the table that the loader yields when it succeeds
RoutedRequests ==
    { r \in RouteCompareRequests :
          \/ ~r.json
          \/ /\ r.load = Loaded(PlainTable) /\ r.model \in RoutedModels
             /\ r.word1 \in RoutedWords /\ r.word2 \in RoutedWords }
    \cup { r \in RouteExistsRequests :
              \/ ~r.json
              \/ r.load = Loaded(PlainTable) /\ r.model \in RoutedModels /\ r.word \in RoutedWords }
    \cup { r \in RouteInfoRequests : r.load = Loaded(PlainTable) /\ r.model \in RoutedModels }
    \cup { [op |-> "POST /api/compare-batch", json |-> TRUE, comparisons |-> cs,
            model |-> m, load |-> Loaded(PlainTable)] :
              cs \in Lists(RoutedPairs, 2), m \in RoutedModels }
    \cup { r \in RouteBatchRequests : ~r.json }
    \cup { [op |-> "POST /api/random", model |-> m, load |-> Loaded(PlainTable),
            draws |-> d, choice |-> 1] : m \in RoutedModels, d \in RoutedDraws }

InitRoutes ==
    /\ CacheInit
    /\ req \in RoutedRequests
    /\ smp = NoSample
    /\ resp = NoResponse

\* a thread takes the request and executes its route up to the get_model
\* call: it answers with the error of the first check that fails, or calls
\* get_model with the validated model name
RouteValidate(t) ==
    /\ pc[t] = "idle"
    /\ resp = NoResponse
    /\ LET v == BeforeGetModel(req) IN
       IF v.ok
       THEN /\ HasBudget(v.model, FALSE)
            /\ pc' = [pc EXCEPT ![t] = "wait"]
            /\ call' = [call EXCEPT ![t] = [op |-> "get_model", model |-> v.model, force |-> FALSE]]
            /\ resp' = Serving(t)
       ELSE /\ resp' = Respond(Route(req))
            /\ UNCHANGED << pc, call >>
    /\ UNCHANGED << loaded_models, model_load_times, load_lock, result, load_time,
                    heap, loaderCalls, disturbed, inherited, iter, req, smp >>

\* get_model has returned the table or raised: the route calls the service
\* and the request is answered
RouteServe(t) ==
    /\ pc[t] = "done"
    /\ resp = Serving(t)
    /\ resp' = Respond(Route([req EXCEPT !.load = IF result[t].kind = "return"
                                                  THEN Loaded(req.load.table)
                                                  ELSE LoadFailed]))
    /\ pc' = [pc EXCEPT ![t] = "idle"]
    /\ call' = [call EXCEPT ![t] = NoCall]
    /\ result' = [result EXCEPT ![t] = NoResult]
    /\ inherited' = [inherited EXCEPT ![t] = NoObj]
    /\ heap' = Collect(heap, loaded_models, result')
    /\ UNCHANGED << loaded_models, model_load_times, load_lock, load_time, loaderCalls,
                    disturbed, iter, req, smp >>

\* a thread that called get_model directly is done with the table or error
DirectFinish(t) ==
    /\ resp # Serving(t)
    /\ Finish(t)

NextRoutes ==
    \/ \E t \in Threads : RouteValidate(t)
    \/ \E t \in Threads : RouteServe(t)
    \/ \E t \in Threads : CallGetModel(t, "glove-wiki-gigaword-50", FALSE)
    \/ \E t \in Threads : GetModelEnter(t)
    \/ \E t \in Threads : LoadSucceed(t, 1)
    \/ \E t \in Threads : StoreLoadTime(t)
    \/ \E t \in Threads : LoadFail(t)
    \/ \E t \in Threads : DirectFinish(t)

SpecRoutes == InitRoutes /\ [][NextRoutes]_vars

---------------------------------------------------------------------------
(* Vocabulary of the properties *)

\* thread t is in get_model(m, ...) or holds its outcome
InGetModel(t, m) == call[t].op = "get_model" /\ call[t].model = m

\* thread t is blocked at `with self.load_lock:` of get_model
WaitsInGetModel(t) == pc[t] = "wait" /\ call[t].op = "get_model"

\* thread t holds a table that get_model returned to it
HoldsTable(t) ==
    pc[t] = "done" /\ call[t].op = "get_model" /\ result[t].kind = "return"

\* thread t is between the start of a loader execution and the release of the lock
InLoad(t) == pc[t] \in {"loading", "caching"}

\* the step in which thread t gets past `with self.load_lock:` of get_model
EnterStep(t) == WaitsInGetModel(t) /\ pc'[t] # "wait"

---------------------------------------------------------------------------
(* C1 *)

\* C1: as long as a catalog name has had no failed load, no removal and no
\* forced reload, the loader has run at most once for it, however many
\* threads called get_model for it concurrently, and every caller that got
\* a table got the table of that one execution, which is the cached one.
THM_C1 ==
    \A m \in model_config :
        ~disturbed[m] =>
            /\ loaderCalls[m] <= 1
            /\ \A t \in Threads :
                   (HoldsTable(t) /\ InGetModel(t, m)) =>
                       /\ loaderCalls[m] = 1
                       /\ result[t].obj = << m, 1 >>
                       /\ m \in DOMAIN loaded_models
                       /\ loaded_models[m] = << m, 1 >>

\* two threads hold the same table of a name loaded once
WIT_C1 ==
    \E t, u \in Threads :
        /\ t # u
        /\ HoldsTable(t) /\ HoldsTable(u)
        /\ call[t].model = call[u].model
        /\ ~disturbed[call[t].model]
        /\ loaderCalls[call[t].model] = 1
        /\ result[t].obj = result[u].obj

---------------------------------------------------------------------------
(* C2 *)

\* C2 as stated: a caller that was waiting for X when a load of X failed
\* receives that same error and never starts a loader execution itself.
CE_C2 ==
    \A u \in Threads :
        inherited[u] # NoObj =>
            \/ pc[u] = "wait"
            \/ pc[u] = "done" /\ result[u] = Raise("ModelError", inherited[u])

\* C2 amended: a caller that was waiting for X when a load of X failed never
\* receives that error; when it gets the lock it re-checks the cache and,
\* unless a table for X has been cached meanwhile (which it then returns),
\* starts a loader execution of its own.
THM_C2 ==
    /\ [](\A u \in Threads :
            (inherited[u] # NoObj /\ pc[u] = "done") => result[u].obj # inherited[u])
    /\ [][\A u \in Threads :
            (inherited[u] # NoObj /\ EnterStep(u)) =>
                LET m == call[u].model IN
                IF m \in DOMAIN loaded_models /\ ~call[u].force
                THEN /\ pc'[u] = "done"
                     /\ result'[u] = ReturnModel(loaded_models[m])
                     /\ loaderCalls' = loaderCalls
                ELSE /\ pc'[u] = "loading"
                     /\ loaderCalls'[m] = loaderCalls[m] + 1]_vars

\* a caller that waited through a failed load of X is running the loader for X
WIT_C2 ==
    \E u \in Threads :
        /\ inherited[u] # NoObj
        /\ pc[u] = "loading"
        /\ inherited[u][1] = call[u].model
        /\ loaderCalls[call[u].model] = inherited[u][2] + 1

---------------------------------------------------------------------------
(* C3 *)

\* a load is in progress in thread t while thread u waits in get_model for
\* another catalog name that is not cached
ColdOtherWaits(t, u) ==
    /\ pc[t] = "loading"
    /\ WaitsInGetModel(u)
    /\ call[u].model # call[t].model
    /\ call[u].model \in model_config
    /\ call[u].model \notin DOMAIN loaded_models

\* C3 as stated: while a load of A is in progress, get_model of another cold
\* name B can go ahead and start its load.
CE_C3 ==
    \A t, u \in Threads : ColdOtherWaits(t, u) => ENABLED GetModelEnter(u)

\* C3 amended: loads are serialized by the one load_lock: at most one thread
\* is executing a load at any time, whatever the names, and while a load is
\* in progress no get_model of any other name can get past the lock.
THM_C3 ==
    /\ \A t, u \in Threads : (InLoad(t) /\ InLoad(u)) => t = u
    /\ \A t \in Threads : InLoad(t) => load_lock = t
    /\ \A t, u \in Threads : ColdOtherWaits(t, u) => ~ ENABLED GetModelEnter(u)

\* a load of A is in progress and a get_model of a cold B is waiting
WIT_C3 == \E t, u \in Threads : ColdOtherWaits(t, u)

---------------------------------------------------------------------------
(* C4 *)

\* thread u waits in get_model(m) without force_reload and m is cached
ReadyWaits(u) ==
    /\ WaitsInGetModel(u)
    /\ ~call[u].force
    /\ call[u].model \in DOMAIN loaded_models

\* C4 as stated: get_model of a cached name never blocks.
CE_C4 == \A u \in Threads : ReadyWaits(u) => ENABLED GetModelEnter(u)

\* C4 amended: get_model of a cached name takes load_lock first, so it can
\* proceed exactly when no thread holds the lock (it waits while any load,
\* of whatever name, or any unload is in progress); once it has the lock it
\* returns the cached table without running the loader and without keeping
\* the lock.
THM_C4 ==
    /\ [](\A u \in Threads :
            ReadyWaits(u) => (ENABLED GetModelEnter(u) <=> load_lock = Unlocked))
    /\ [][\A u \in Threads :
            (ReadyWaits(u) /\ EnterStep(u)) =>
                /\ pc'[u] = "done"
                /\ result'[u] = ReturnModel(loaded_models[call[u].model])
                /\ loaderCalls' = loaderCalls
                /\ load_lock' = Unlocked
                /\ loaded_models' = loaded_models]_vars

\* a get_model of a cached name is held up by a load of another name
WIT_C4 ==
    \E t, u \in Threads :
        /\ ReadyWaits(u)
        /\ pc[t] = "loading"
        /\ call[t].model # call[u].model
        /\ load_lock = t

---------------------------------------------------------------------------
(* C5 *)

---------------------------------------------------------------------------
(* C6 *)

\* the step in which the loader execution of thread t fails
FailStep(t) == pc[t] = "loading" /\ pc'[t] = "done"

\* C6: a failed load changes neither map, so after a failure on a cold
\* cache the name has no table and no load time; a later get_model of a
\* name without a table runs the loader again whatever failed before, and
\* when that execution succeeds its table is cached with a load time and
\* returned.
THM_C6 ==
    [][\A t \in Threads :
          LET m == call[t].model IN
          /\ FailStep(t) =>
                 /\ result'[t] = Raise("ModelError", CurrentLoad(t))
                 /\ loaded_models' = loaded_models
                 /\ model_load_times' = model_load_times
                 /\ load_lock' = Unlocked
                 /\ (~call[t].force) =>
                        (m \notin DOMAIN loaded_models' /\ m \notin DOMAIN model_load_times')
          /\ (EnterStep(t) /\ m \in model_config /\ m \notin DOMAIN loaded_models) =>
                 /\ pc'[t] = "loading"
                 /\ loaderCalls'[m] = loaderCalls[m] + 1
          /\ (pc[t] = "caching" /\ pc'[t] # "caching") =>
                 /\ result'[t] = ReturnModel(CurrentLoad(t))
                 /\ loaded_models'[m] = CurrentLoad(t)
                 /\ m \in DOMAIN model_load_times']_vars

\* a get_model of X failed in one thread and the next get_model of X, in
\* another thread, loaded X
WIT_C6 ==
    \E t, u \in Threads :
        /\ pc[t] = "done" /\ call[t].op = "get_model" /\ ~call[t].force
        /\ result[t].kind = "raise" /\ result[t].obj # NoObj
        /\ HoldsTable(u) /\ call[u].model = call[t].model
        /\ result[u].obj = << call[t].model, result[t].obj[2] + 1 >>
        /\ loaded_models[call[t].model] = result[u].obj

---------------------------------------------------------------------------
(* C7 *)

\* C7 as stated: whenever no operation is inside the cache, the number of
\* cached tables is at most the configured limit.
CE_C7 ==
    load_lock = Unlocked => Cardinality(DOMAIN loaded_models) <= MODEL_CACHE_SIZE_LIMIT

---------------------------------------------------------------------------
(* C8 *)

\* C8: a table that get_model returned to a caller exists for as long as
\* the caller holds it, whether or not the cache still has an entry for it.
THM_C8 ==
    \A t \in Threads : HoldsTable(t) => result[t].obj \in heap

\* a caller holds a table whose name has no entry in the cache any more
WIT_C8 ==
    \E t \in Threads :
        /\ HoldsTable(t)
        /\ call[t].model \notin DOMAIN loaded_models
        /\ result[t].obj \in heap

---------------------------------------------------------------------------
(* C9 *)

\* C9 as stated: no table whose load took longer than MODEL_LOAD_TIMEOUT is
\* published.
CE_C9 ==
    /\ \A t \in Threads : pc[t] = "caching" => load_time[t] <= MODEL_LOAD_TIMEOUT
    /\ \A m \in DOMAIN model_load_times : model_load_times[m] <= MODEL_LOAD_TIMEOUT

---------------------------------------------------------------------------
(* C10 *)

\* C10: unload_model(m) of a name without a table returns False and changes
\* neither map; of a name with a table it removes exactly m's table, then
\* exactly m's load time, and returns True; no other entry changes.
THM_C10 ==
    [][\A t \in Threads :
          LET m == call[t].model IN
          /\ (pc[t] = "wait" /\ call[t].op = "unload_model" /\ pc'[t] # "wait") =>
                 IF m \in DOMAIN loaded_models
                 THEN /\ pc'[t] = "unloading"
                      /\ loaded_models' = Remove(loaded_models, m)
                      /\ model_load_times' = model_load_times
                 ELSE /\ pc'[t] = "done"
                      /\ result'[t] = ReturnBool(FALSE)
                      /\ loaded_models' = loaded_models
                      /\ model_load_times' = model_load_times
          /\ (pc[t] = "unloading" /\ pc'[t] # "unloading") =>
                 /\ pc'[t] = "done"
                 /\ result'[t] = ReturnBool(TRUE)
                 /\ loaded_models' = loaded_models
                 /\ m \notin DOMAIN loaded_models'
                 /\ m \notin DOMAIN model_load_times'
                 /\ \A x \in DOMAIN model_load_times \ {m} :
                        x \in DOMAIN model_load_times'
                        /\ model_load_times'[x] = model_load_times[x]
                 /\ DOMAIN model_load_times' \subseteq DOMAIN model_load_times]_vars

\* unload_model returned True for a name while another name stays cached
WIT_C10 ==
    \E t \in Threads :
        /\ pc[t] = "done" /\ call[t].op = "unload_model"
        /\ result[t].ret
        /\ call[t].model \notin DOMAIN loaded_models
        /\ call[t].model \notin DOMAIN model_load_times
        /\ DOMAIN loaded_models # {}
        /\ DOMAIN loaded_models = DOMAIN model_load_times

---------------------------------------------------------------------------
(* C11 *)

\* what get_loaded_models_info returns when nothing changes the maps while it
\* runs: one record per entry of loaded_models, its load time taken from
\* model_load_times with 0 for a name that has none
LoadedModelsInfo(lm, lt) ==
    [m \in DOMAIN lm |-> [load_time |-> IF m \in DOMAIN lt THEN lt[m] ELSE 0]]

\* unload_all_models has returned to thread t and nothing was cached since
ClearedBy(t) ==
    /\ pc[t] = "done"
    /\ call[t].op = "unload_all_models"
    /\ loaded_models = EmptyMap

\* C11: when unload_all_models returns, loaded_models and model_load_times
\* are both empty and get_loaded_models_info lists nothing; a get_model of a
\* catalog name that gets the lock after that return, before anything else
\* was cached, executes the loader again.
THM_C11 ==
    [][\A t \in Threads :
          /\ (pc[t] = "clearing" /\ pc'[t] # "clearing") =>
                 /\ pc'[t] = "done"
                 /\ loaded_models' = EmptyMap
                 /\ model_load_times' = EmptyTimes
                 /\ DOMAIN LoadedModelsInfo(loaded_models', model_load_times') = {}
                 /\ load_lock' = Unlocked
          /\ \A u \in Threads :
                 (ClearedBy(t) /\ EnterStep(u) /\ call[u].model \in model_config) =>
                     /\ pc'[u] = "loading"
                     /\ loaderCalls'[call[u].model] = loaderCalls[call[u].model] + 1]_vars

\* a name was loaded, unload_all_models returned, and a get_model of the
\* same name is executing the loader for the second time
WIT_C11 ==
    \E t, u \in Threads :
        /\ ClearedBy(t)
        /\ model_load_times = EmptyTimes
        /\ pc[u] = "loading"
        /\ loaderCalls[call[u].model] = 2

---------------------------------------------------------------------------
(* C12 *)

\* C12 as stated: a reader that runs without load_lock always completes
\* without an error, whatever get_model, unload_model and unload_all_models
\* do on other threads in the meantime.
CE_C12 ==
    \A t \in Threads :
        (pc[t] = "done" /\ call[t].op \in IteratingReaders \cup SnapshotReaders) =>
            result[t].kind = "return"

---------------------------------------------------------------------------
(* C13 *)

\* everything ModelManager keeps about the entries of the cache: its only
\* fields besides the logger and the lock are the two maps
EntryRecords == << loaded_models, model_load_times >>

\* C13 as stated: whenever no operation is inside the cache every cached
\* table has a load duration, and every get_model that returns a cached table
\* records its access time, so that what the cache keeps about its entries
\* changes in that step.
CE_C13 ==
    /\ [](load_lock = Unlocked => DOMAIN loaded_models \subseteq DOMAIN model_load_times)
    /\ [][\A u \in Threads :
            (ReadyWaits(u) /\ EnterStep(u)) => EntryRecords' # EntryRecords]_vars

---------------------------------------------------------------------------
(* C14 *)

\* get_random_word is under way or over
InSample == req.op = "get_random_word"

\* get_random_word has returned or raised
SampleOver == InSample /\ smp # NoSample /\ smp.at = "end"

\* C14 as stated: get_random_word never ends with an error, whatever the
\* table, batch_size and max_retries.
CE_C14 == SampleOver => resp.kind = "return"

\* C14 amended: get_random_word always comes to an end; on a table with an
\* empty vocabulary it raises ModelError; on every other table, for every
\* batch_size and max_retries, it returns a word, which is a word of the
\* fallback list when no draw was accepted.
THM_C14 ==
    /\ (InSample /\ ~SampleOver) =>
           ENABLED (SampleStart \/ SampleBatch \/ SampleExamine
                    \/ \E c \in 1..Len(fallback_words) : SampleFallback(c))
    /\ SampleOver =>
           IF get_vocabulary_size(req.table) = 0
           THEN resp = Raised("ModelError", {})
           ELSE /\ resp.kind = "return"
                /\ resp.word # << >>
                /\ resp.fallback_used =>
                       \E i \in 1..Len(fallback_words) : resp.word = fallback_words[i]

\* every draw of every attempt was rejected and a fallback word was returned
WIT_C14 ==
    /\ SampleOver
    /\ get_vocabulary_size(req.table) # 0
    /\ smp.draws = req.max_retries * req.batch_size
    /\ smp.draws > 0
    /\ resp.kind = "return"
    /\ resp.fallback_used

---------------------------------------------------------------------------
(* C15 *)

\* C15 as stated: every word get_random_word returns is in the vocabulary of
\* the table: a clean drawn word of the mapping, or a fallback word that is
\* in the vocabulary too.
CE_C15 ==
    (SampleOver /\ resp.kind = "return") =>
        /\ word_exists_in_model(req.table, resp.word)
        /\ ~resp.fallback_used =>
               /\ isalpha(resp.word)
               /\ Len(resp.word) \in MIN_CLEAN_LENGTH..MAX_CLEAN_LENGTH

\* C15 amended: a word that get_random_word drew is the stripped key of its
\* rank, is alphabetic, has 3 to 15 characters and is in the vocabulary; a
\* fallback word is the first word of the fallback list that is in the
\* vocabulary, or, when the vocabulary has none of them, any word of the
\* list, which then is not in the vocabulary.
THM_C15 ==
    (SampleOver /\ resp.kind = "return") =>
        IF resp.fallback_used
        THEN \E i \in 1..Len(fallback_words) :
                /\ resp.word = fallback_words[i]
                /\ \/ /\ word_exists_in_model(req.table, resp.word)
                      /\ \A j \in 1..(i - 1) : ~word_exists_in_model(req.table, fallback_words[j])
                   \/ \A j \in 1..Len(fallback_words) :
                          ~word_exists_in_model(req.table, fallback_words[j])
        ELSE /\ resp.word = StripChars(index_to_key(req.table, resp.word_index))
             /\ \A k \in 1..Len(resp.word) : resp.word[k] \in AsciiLetters \cup OtherLetters
             /\ Len(resp.word) \in MIN_CLEAN_LENGTH..MAX_CLEAN_LENGTH
             /\ word_exists_in_model(req.table, resp.word)

\* every draw was rejected and a fallback word that the vocabulary does not
\* have was returned
WIT_C15 ==
    /\ SampleOver
    /\ resp.kind = "return"
    /\ resp.fallback_used
    /\ ~word_exists_in_model(req.table, resp.word)
    /\ smp.draws > 0

---------------------------------------------------------------------------
(* C16 *)

\* compare_words was called and is over
CompareOver == req.op = "compare_words" /\ resp # NoResponse

\* the words of the call that the table does not have
AbsentWords == { w \in {req.word1, req.word2} : ~word_exists_in_model(req.table, w) }

---------------------------------------------------------------------------
(* C17 *)

\* compare_words_batch was called and is over
BatchOver == req.op = "compare_words_batch" /\ resp # NoResponse

\* the positions, counted from 0, of the pairs that can be compared
ComparablePositions ==
    { i - 1 : i \in { j \in 1..Len(req.comparisons) : Comparable(req.table, req.comparisons[j]) } }

\* C17: compare_words_batch returns for every list of pairs; each pair
\* yields exactly one result, if both its words are in the table, or exactly
\* one failure record carrying its position, if a word is absent or a key is
\* missing; the results keep the order of the pairs, and
\* successful_comparisons + failed_comparisons = total_comparisons = number of
\* pairs.
THM_C17 ==
    BatchOver =>
        LET n == Len(req.comparisons)
            good == SelectSeq(req.comparisons, LAMBDA c : Comparable(req.table, c)) IN
        /\ resp.kind = "return"
        /\ resp.total_comparisons = n
        /\ resp.successful_comparisons + resp.failed_comparisons = n
        /\ resp.successful_comparisons = Len(resp.results)
        /\ resp.failed_comparisons = Len(resp.failures)
        /\ resp.results = [k \in 1..Len(good) |-> [word1 |-> good[k].word1, word2 |-> good[k].word2]]
        /\ { resp.failures[k].index : k \in 1..Len(resp.failures) }
               = (0..(n - 1)) \ ComparablePositions
        /\ \A k, l \in 1..Len(resp.failures) :
               k < l => resp.failures[k].index < resp.failures[l].index

\* the first pair has an absent word and is reported as a failure, the
\* second pair is compared all the same
WIT_C17 ==
    /\ BatchOver
    /\ Len(req.comparisons) = 2
    /\ req.comparisons[1].has1 /\ req.comparisons[1].has2
    /\ ~Comparable(req.table, req.comparisons[1])
    /\ Comparable(req.table, req.comparisons[2])
    /\ resp.kind = "return"
    /\ resp.successful_comparisons = 1
    /\ resp.failed_comparisons = 1
    /\ resp.failures[1].index = 0

---------------------------------------------------------------------------
(* C18 *)

\* the endpoints under /api that take a model
ApiOps == { "POST /api/compare", "POST /api/exists", "GET /api/info", "POST /api/compare-batch" }

\* a request to such an endpoint has been answered
Answered == req.op \in ApiOps /\ resp # NoResponse

\* the request names a model outside VALID_MODELS
NamesUnknownModel == ~validate_model(req.model).ok

\* C18 as stated: a request that names a model outside the enumerated set
\* is answered with 404; a request with a known model and an invalid word,
\* or with valid words of which the table lacks one, is answered with 400.
CE_C18 ==
    Answered =>
        /\ NamesUnknownModel => resp.status = 404
        /\ (req.op = "POST /api/compare" /\ req.json /\ ~NamesUnknownModel) =>
               LET v1 == validate_word(req.word1)
                   v2 == validate_word(req.word2) IN
               /\ (~v1.ok \/ ~v2.ok) => resp.status = 400
               /\ (/\ v1.ok /\ v2.ok /\ req.load.ok
                   /\ \E w \in {v1.word, v2.word} : ~word_exists_in_model(req.load.table, w)) =>
                      resp.status = 400

---------------------------------------------------------------------------
(* C19 *)

\* validate_word was called and is over
ValidateOver == req.op = "validate_word" /\ resp # NoResponse

\* the str that validate_word examines: the stripped value, or the stripped
\* str() of a value that is not a str; None has none
Examined == StripChars(IF req.word.kind = "str" THEN req.word.text ELSE IntStr(req.word.value))

\* the requirements on length, characters and both ends that C19 lists
WellFormed(w) ==
    /\ Len(w) >= 1 /\ Len(w) <= 100
    /\ \A i \in 1..Len(w) :
           \/ w[i] \in AsciiLetters
           \/ \E d \in 1..10 : w[i] = DigitChars[d]
           \/ w[i] \in {"-", "_", "'", "."}
    /\ w[1] \notin {"-", "_"}
    /\ w[Len(w)] \notin {"-", "_"}

\* C19 as stated: validate_word accepts exactly the values whose stripped
\* str is well-formed and has no two adjacent characters from - _ ' . ;
\* it rejects every other value with ValidationError.
CE_C19 ==
    ValidateOver =>
        (resp.kind = "return" <=>
            /\ req.word.kind # "none"
            /\ WellFormed(Examined)
            /\ ~\E i \in 1..(Len(Examined) - 1) :
                   Examined[i] \in SpecialChars /\ Examined[i + 1] \in SpecialChars)

---------------------------------------------------------------------------
(* C20 *)

\* a batch request with a body, a list of pairs and a known model has been
\* answered
BatchAnswered ==
    /\ req.op = "POST /api/compare-batch"
    /\ resp # NoResponse
    /\ req.json
    /\ req.comparisons # << >>
    /\ ~NamesUnknownModel

\* the pairs of the request that miss a key or have a word that
\* validate_word rejects
BadPairs == { i \in 1..Len(req.comparisons) : BadPair(req.comparisons[i]) }

\* C20 as stated: when one pair of the request is bad and the others are
\* valid, the request is answered with results for the others and a
\* failure record for the bad pair.
CE_C20 ==
    (BatchAnswered /\ req.load.ok /\ Cardinality(BadPairs) = 1 /\ Len(req.comparisons) > 1) =>
        /\ resp.status = 200
        /\ resp.body.kind = "return"
        /\ resp.body.total_comparisons = Len(req.comparisons)
        /\ resp.body.failed_comparisons >= 1

\* C20 amended: a pair that misses a key or has a word that fails word
\* validation makes the whole request fail with 400 and no results.  Only
\* when every pair is valid are the pairs compared one by one: then a pair
\* with a word that the table lacks is reported as a failure of its own, and
\* the other pairs still get their results.
THM_C20 ==
    BatchAnswered =>
        IF BadPairs # {}
        THEN /\ resp.status = 400
             /\ resp.body = Raised("ValidationError", {})
        ELSE IF ~req.load.ok
        THEN resp.status = 500
        ELSE LET validated == ValidatedComparisons(req.comparisons)
                 good == { i \in 1..Len(validated) : Comparable(req.load.table, validated[i]) } IN
             /\ resp.status = 200
             /\ resp.body.kind = "return"
             /\ resp.body.total_comparisons = Len(req.comparisons)
             /\ Len(resp.body.results) = Cardinality(good)
             /\ resp.body.successful_comparisons = Cardinality(good)
             /\ resp.body.failed_comparisons = Len(req.comparisons) - Cardinality(good)
             /\ { resp.body.failures[k].index : k \in 1..Len(resp.body.failures) }
                    = { i - 1 : i \in (1..Len(validated)) \ good }

\* a request with one bad pair and one valid pair was rejected as a whole
WIT_C20 ==
    /\ BatchAnswered
    /\ req.load.ok
    /\ Len(req.comparisons) = 2
    /\ Cardinality(BadPairs) = 1
    /\ resp.status = 400

---------------------------------------------------------------------------
(* C21 *)

\* thread t is executing a call that may take name m out of the cache or
\* replace its table: unload_model(m), unload_all_models, or
\* get_model(m, force_reload=True)
Removes(t, m) ==
    \/ call[t].op = "unload_model" /\ call[t].model = m
    \/ call[t].op = "unload_all_models"
    \/ call[t].op = "get_model" /\ call[t].model = m /\ call[t].force

\* C21: a cached table stays the cached table of its name through every
\* step that is not a step of an unload of that name, of unload_all_models
\* or of a forced reload of that name, whatever happens to other names; and
\* a get_model without force_reload that gets the lock while the name is
\* cached returns exactly that table and does not execute the loader.
THM_C21 ==
    [][/\ \A m \in DOMAIN loaded_models :
             (m \notin DOMAIN loaded_models' \/ loaded_models'[m] # loaded_models[m]) =>
                 \E t \in Threads : Removes(t, m) /\ pc'[t] # pc[t]
       /\ \A t \in Threads :
             LET m == call[t].model IN
             (EnterStep(t) /\ ~call[t].force /\ m \in DOMAIN loaded_models) =>
                 /\ pc'[t] = "done"
                 /\ result'[t] = ReturnModel(loaded_models[m])
                 /\ loaderCalls' = loaderCalls
                 /\ loaded_models' = loaded_models]_vars

\* two callers hold the one table ever loaded for a name, still the cached
\* one, while another name had a failed load or a removal
WIT_C21 ==
    \E t, u \in Threads, x \in model_config :
        /\ t # u
        /\ HoldsTable(t) /\ HoldsTable(u)
        /\ ~call[t].force /\ ~call[u].force
        /\ call[t].model = call[u].model
        /\ x # call[t].model
        /\ disturbed[x]
        /\ loaderCalls[call[t].model] = 1
        /\ result[t].obj = result[u].obj
        /\ call[t].model \in DOMAIN loaded_models
        /\ loaded_models[call[t].model] = result[t].obj

---------------------------------------------------------------------------
(* C22 *)

---------------------------------------------------------------------------
(* C23 *)

\* word2vec_health: list(current_app.model_manager.loaded_models.keys())
VisibleAsLoaded == DOMAIN loaded_models

\* a loader execution for name m is in progress
LoadInProgress(m) == \E t \in Threads : pc[t] = "loading" /\ call[t].model = m

\* the latest loader execution for name m failed and a caller holds its error
LatestLoadFailed(m) ==
    \E t \in Threads :
        pc[t] = "done" /\ result[t] = Raise("ModelError", << m, loaderCalls[m] >>)

\* C23 as stated: a name is visible as loaded only if a loader execution
\* for it has returned a table, and a name whose load is in progress or has
\* failed is never visible as loaded.
CE_C23 ==
    \A m \in VisibleAsLoaded :
        /\ loaded_models[m][1] = m
        /\ loaded_models[m][2] \in 1..loaderCalls[m]
        /\ ~LoadInProgress(m)
        /\ ~LatestLoadFailed(m)

\* C23 amended: the table visible under a name is always one that a
\* completed loader execution for that name returned, never that of an
\* execution in progress or of a failed one; a name whose load is in
\* progress is visible only during a forced reload, with the table of an
\* earlier execution.
THM_C23 ==
    \A m \in VisibleAsLoaded :
        /\ m \in model_config
        /\ loaded_models[m][1] = m
        /\ loaded_models[m][2] \in 1..loaderCalls[m]
        /\ loaded_models[m] \in heap
        /\ \A t \in Threads :
               /\ (pc[t] = "loading" /\ call[t].model = m) =>
                      (call[t].force /\ loaded_models[m][2] < loaderCalls[m])
               /\ result[t].kind = "raise" => loaded_models[m] # result[t].obj

\* a forced reload of a cached name is in progress and the name is visible
\* with the table of the earlier execution
WIT_C23 ==
    \E t \in Threads :
        /\ pc[t] = "loading"
        /\ call[t].force
        /\ call[t].model \in VisibleAsLoaded
        /\ loaded_models[call[t].model] = << call[t].model, 1 >>
        /\ loaderCalls[call[t].model] = 2

---------------------------------------------------------------------------
(* C24 *)

\* the key at rank r of the table of the request, stripped, passes the
\* checks of get_random_word: not empty, clean, and itself a key
Accepted(r) ==
    LET word == StripChars(index_to_key(req.table, r)) IN
    /\ word # << >>
    /\ Len(word) \in MIN_CLEAN_LENGTH..MAX_CLEAN_LENGTH
    /\ isalpha(word)
    /\ word \in req.table.keys

\* get_random_word has returned a word that it drew
DrawnReturned == SampleOver /\ resp.kind = "return" /\ ~resp.fallback_used

\* C24: every rank get_random_word draws is below 15000 and below the
\* vocabulary size; a drawn word that it returns is the stripped key at the
\* reported word_index, which is the first rank of its batch, in draw order,
\* whose word passes the clean-word and existence checks.
THM_C24 ==
    /\ (InSample /\ smp # NoSample) =>
           \A k \in 1..Len(smp.batch_indices) :
               /\ 0 <= smp.batch_indices[k]
               /\ smp.batch_indices[k] < COMMON_WORDS
               /\ smp.batch_indices[k] < req.table.size
    /\ DrawnReturned =>
           /\ smp.i \in 1..Len(smp.batch_indices)
           /\ resp.word_index = smp.batch_indices[smp.i]
           /\ resp.word = StripChars(index_to_key(req.table, resp.word_index))
           /\ Accepted(resp.word_index)
           /\ \A k \in 1..(smp.i - 1) : ~Accepted(smp.batch_indices[k])
           /\ resp.batch_attempt = smp.attempt + 1

\* on a table of more than 15000 keys the word of the last common rank was
\* returned after an earlier rank of the same batch had been rejected
WIT_C24 ==
    /\ DrawnReturned
    /\ req.table.size > COMMON_WORDS
    /\ resp.word_index = COMMON_WORDS - 1
    /\ smp.i > 1

---------------------------------------------------------------------------
(* C25 *)

\* get_random_word is looking at a rank of its batch
Examining == InSample /\ smp # NoSample /\ smp.at = "examine" /\ smp.i <= Len(smp.batch_indices)

\* C25: get_random_word draws at most max_retries * batch_size ranks; a
\* rejected rank only moves it on to the next rank of the batch, an
\* accepted one ends it; and it takes the fallback only after max_retries
\* batches in which no rank was accepted, having drawn exactly
\* max_retries * batch_size ranks.
THM_C25 ==
    [][/\ Examining =>
             IF Accepted(smp.batch_indices[smp.i])
             THEN /\ smp'.at = "end"
                  /\ resp'.kind = "return"
                  /\ ~resp'.fallback_used
                  /\ resp'.word_index = smp.batch_indices[smp.i]
             ELSE /\ smp' = [smp EXCEPT !.i = smp.i + 1]
                  /\ resp' = resp
       /\ (InSample /\ smp' # NoSample) =>
             /\ smp'.draws <= req.max_retries * req.batch_size
             /\ smp'.attempt <= req.max_retries
             /\ smp'.at # "end" => resp' = NoResponse
       /\ (InSample /\ smp # NoSample /\ smp.at = "attempt") =>
             IF smp.attempt < req.max_retries
             THEN /\ smp'.at = "examine"
                  /\ smp'.draws = smp.draws + req.batch_size
                  /\ resp' = resp
             ELSE /\ smp'.at = "end"
                  /\ resp'.kind = "return"
                  /\ resp'.fallback_used
                  /\ smp.draws = req.max_retries * req.batch_size]_vars

\* the word of the last rank of the last batch was returned after every
\* rank before it had been rejected
WIT_C25 ==
    /\ DrawnReturned
    /\ req.max_retries > 1
    /\ req.batch_size > 1
    /\ smp.attempt + 1 = req.max_retries
    /\ smp.i = req.batch_size
    /\ smp.draws = req.max_retries * req.batch_size

---------------------------------------------------------------------------
(* C26 *)

\* get_random_word has returned a fallback word
FellBack == SampleOver /\ resp.kind = "return" /\ resp.fallback_used

\* C26: the fallback word returned is the first word of the fallback list,
\* in list order, that is a key of the table; when no word of the list is a
\* key, it is some word of the list.
THM_C26 ==
    FellBack =>
        LET present == { i \in 1..Len(fallback_words) : fallback_words[i] \in req.table.keys } IN
        IF present # {}
        THEN \E i \in present :
                /\ resp.word = fallback_words[i]
                /\ \A j \in present : i <= j
        ELSE \E i \in 1..Len(fallback_words) : resp.word = fallback_words[i]

\* on a table that has the second and the twenty-seventh word of the
\* fallback list, every draw was rejected and the second one was returned
WIT_C26 ==
    /\ FellBack
    /\ smp.draws > 0
    /\ fallback_words[2] \in req.table.keys
    /\ fallback_words[27] \in req.table.keys
    /\ fallback_words[1] \notin req.table.keys
    /\ resp.word = fallback_words[2]

---------------------------------------------------------------------------
(* C27 *)

\* the request is one to a route of routes/word2vec.py
InRoute ==
    req.op \in { "POST /api/compare", "POST /api/exists", "GET /api/info",
                 "POST /api/compare-batch", "POST /api/random" }

\* the request has no JSON body where one is required, a word that is
\* missing or not valid, an empty comparisons list or a pair that lacks a
\* word or has one that is not valid, or a model name outside the catalog
InvalidRequest ==
    \/ /\ req.op \in { "POST /api/compare", "POST /api/exists", "POST /api/compare-batch" }
       /\ ~req.json
    \/ /\ req.op = "POST /api/compare"
       /\ ~validate_word(req.word1).ok \/ ~validate_word(req.word2).ok
    \/ /\ req.op = "POST /api/exists"
       /\ ~validate_word(req.word).ok
    \/ /\ req.op = "POST /api/compare-batch"
       /\ \/ req.comparisons = << >>
          \/ \E i \in 1..Len(req.comparisons) :
                 LET comp == req.comparisons[i] IN
                 \/ ~comp.has1 \/ ~comp.has2
                 \/ ~validate_word(comp.word1).ok \/ ~validate_word(comp.word2).ok
    \/ /\ ~req.model.isNone
       /\ Strip(req.model).body # ""
       /\ Strip(req.model).body \notin model_config

\* C27: a request with an invalid word, a malformed body or an unknown
\* model name is answered with an error by the step that takes it, without
\* a get_model call: that step changes nothing of the cache or of any
\* thread's position, and no thread is ever in get_model on its behalf.
THM_C27 ==
    [][(InRoute /\ InvalidRequest) =>
           /\ resp'.kind # "serving"
           /\ (resp = NoResponse /\ resp' # NoResponse) =>
                  /\ resp'.kind = "http"
                  /\ resp'.status # 200
                  /\ UNCHANGED cacheVars]_vars

\* a request with an invalid word and a valid model name was answered with
\* status 400 while another thread holds load_lock for a load
WIT_C27 ==
    /\ InRoute
    /\ InvalidRequest
    /\ req.op = "POST /api/compare"
    /\ req.json
    /\ validate_model(req.model).ok
    /\ resp.kind = "http"
    /\ resp.status = 400
    /\ \E u \in Threads : pc[u] = "loading"

---------------------------------------------------------------------------
(* C28 *)

\* get_model's error for a name outside the catalog ("Unknown model ...")
UnknownModel == Raise("ModelError", NoObj)

\* C28: the names validate_model accepts, the default included, are exactly
\* the keys of the catalog; so whenever a route calls get_model, it does so
\* with the name validate_model returned, that name is in the catalog, and
\* the call does not fail with "Unknown model".
THM_C28 ==
    /\ VALID_MODELS \cup {DEFAULT_MODEL} = model_config
    /\ \A t \in Threads :
           resp = Serving(t) =>
               /\ call[t].op = "get_model"
               /\ validate_model(req.model).ok
               /\ call[t].model = validate_model(req.model).model
               /\ call[t].model \in model_config
               /\ pc[t] = "done" => result[t] # UnknownModel

\* a request without a model field had the default substituted and
\* get_model returned the table of the default to the route
WIT_C28 ==
    \E t \in Threads :
        /\ resp = Serving(t)
        /\ req.model.isNone
        /\ HoldsTable(t)
        /\ call[t].model = DEFAULT_MODEL
        /\ result[t].obj[1] = DEFAULT_MODEL

---------------------------------------------------------------------------
(* C29 *)

\* C29: whenever no thread holds load_lock, loaded_models and
\* model_load_times have the same keys, and these are names of the catalog.
THM_C29 ==
    load_lock = Unlocked =>
        /\ DOMAIN loaded_models = DOMAIN model_load_times
        /\ DOMAIN loaded_models \subseteq model_config

\* with the lock free, one name has a table and a load time while another
\* name, loaded before, has neither any more
WIT_C29 ==
    /\ load_lock = Unlocked
    /\ DOMAIN loaded_models # {}
    /\ DOMAIN loaded_models = DOMAIN model_load_times
    /\ \E m \in model_config :
           /\ loaderCalls[m] > 0
           /\ disturbed[m]
           /\ m \notin DOMAIN loaded_models
           /\ m \notin DOMAIN model_load_times

---------------------------------------------------------------------------
(* C30 *)

\* thread t is in get_model(m, force_reload=True) for a name m that has a table
Reloading(t) ==
    /\ call[t].op = "get_model"
    /\ call[t].force
    /\ call[t].model \in DOMAIN loaded_models

\* C30: a get_model with force_reload=True of a cached name executes the
\* loader; while it runs and when it fails the table and the load time of
\* the name stay as they were and the failure is raised as ModelError; when
\* it succeeds the table and then the load time of the name are replaced
\* by those of this execution, and the new table is returned.
THM_C30 ==
    [][\A t \in Threads :
          LET m == call[t].model IN
          /\ (EnterStep(t) /\ Reloading(t)) =>
                 /\ pc'[t] = "loading"
                 /\ loaderCalls'[m] = loaderCalls[m] + 1
                 /\ UNCHANGED << loaded_models, model_load_times >>
          /\ (FailStep(t) /\ Reloading(t)) =>
                 /\ result'[t] = Raise("ModelError", CurrentLoad(t))
                 /\ UNCHANGED << loaded_models, model_load_times >>
                 /\ loaded_models[m] # CurrentLoad(t)
          /\ (pc[t] = "loading" /\ pc'[t] = "caching" /\ Reloading(t)) =>
                 /\ loaded_models[m] # CurrentLoad(t)
                 /\ loaded_models' = Put(loaded_models, m, CurrentLoad(t))
          /\ (pc[t] = "caching" /\ pc'[t] = "done" /\ Reloading(t)) =>
                 /\ loaded_models'[m] = CurrentLoad(t)
                 /\ model_load_times' = Put(model_load_times, m, load_time[t])
                 /\ result'[t] = ReturnModel(CurrentLoad(t))]_vars

\* a forced reload of a name failed, and a get_model of that name without
\* force_reload holds the table of the earlier execution, which is still
\* the cached one, with its load time
WIT_C30 ==
    \E t, u \in Threads :
        /\ pc[t] = "done" /\ call[t].op = "get_model" /\ call[t].force
        /\ result[t] = Raise("ModelError", << call[t].model, 2 >>)
        /\ HoldsTable(u) /\ ~call[u].force
        /\ call[u].model = call[t].model
        /\ result[u].obj = << call[t].model, 1 >>
        /\ loaded_models[call[t].model] = << call[t].model, 1 >>
        /\ call[t].model \in DOMAIN model_load_times

---------------------------------------------------------------------------
\* the bound of the exploration is respected
BudgetOK == TotalLoads + Cardinality(Reserved) <= MaxLoads

====
